---- MODULE Spec2Model ----
(***************************************************************************)
(* A model of @qbjs/core: the parser, printer, security validator, the     *)
(* Drizzle PostgreSQL compiler, the query-builder orchestrator and the     *)
(* LRU/TTL result cache.                                                   *)
(*                                                                         *)
(* Data representation.  A JavaScript string is a tuple of one-character   *)
(* strings, so that split/join/trim act on characters.  A JavaScript value *)
(* of dynamic type is a tagged record: [t |-> "undef"], [t |-> "null"],    *)
(* [t |-> "num", v |-> n], [t |-> "str", s |-> chars],                     *)
(* [t |-> "arr", items |-> seq], [t |-> "obj", kv |-> seq of [k, v]] (an   *)
(* object keeps its keys in order).  Error records keep code and field and *)
(* the first path element (surface); the message text is not modelled.     *)
(***************************************************************************)
EXTENDS Integers, Sequences, FiniteSets, TLC

VARIABLES
    call,       \* the last call of a pure entry point: its arguments and result
    exPc,       \* execute(): position in the builder's pipeline
    exInput,    \* execute(): the QueryInput and table it was called with
    exStages,   \* execute(): the stages run so far, in order
    exParser,   \* execute(): ParserResult of parse(input)
    exSecurity, \* execute(): SecurityValidationResult of validateSecurity
    exCompile,  \* execute(): CompilerResult of compiler.compile
    exResult,   \* execute(): the QueryBuilderExecuteResult returned
    cache,      \* LRUCache.cache: the Map's entries in insertion order
    cacheConfig,        \* LRUCache.config: maxSize and ttl
    cleanupTimer,       \* LRUCache.cleanupTimer: an interval handle, or 0 for null
    evictions,          \* LRUCache.evictions
    evictionsByReason,  \* LRUCache.evictionsByReason
    now,        \* Date.now()
    intervals,  \* the runtime's active setInterval handles
    cacheCall,  \* the cache call in progress, or the last one that returned
    returned,   \* what the last cache call returned
    evicted,    \* the onEvict calls made by the call in cacheCall, in order
    globalQueryCache,   \* the module's globalQueryCache: an instance of heap, or 0 for null
    heap,       \* the QueryCache instances created so far, by identity
    globalCall  \* the last call of getGlobalQueryCache / resetGlobalQueryCache

pipeVars == <<exPc, exInput, exStages, exParser, exSecurity, exCompile, exResult>>

cacheVars ==
    <<cache, cacheConfig, cleanupTimer, evictions, evictionsByReason, now,
      intervals, cacheCall, returned, evicted>>

globalVars == <<globalQueryCache, heap, globalCall>>

(***************************************************************************)
(* Generic sequence helpers                                                *)
(***************************************************************************)
Range(s) == {s[i] : i \in 1..Len(s)}

Includes(s, x) == \E i \in 1..Len(s) : s[i] = x

FilterSeq(s, keep(_)) == SelectSeq(s, keep)

RECURSIVE Flatten(_)
Flatten(ss) == IF ss = <<>> THEN <<>> ELSE Head(ss) \o Flatten(Tail(ss))

\* Array.from(new Set(s)): first occurrences, in order
RECURSIVE Unique(_)
Unique(s) ==
    IF s = <<>> THEN <<>>
    ELSE LET init == Unique(SubSeq(s, 1, Len(s) - 1))
             last == s[Len(s)]
         IN IF Includes(init, last) THEN init ELSE Append(init, last)

CountIn(s, ok(_)) == Cardinality({i \in 1..Len(s) : ok(s[i])})

Min(a, b) == IF a <= b THEN a ELSE b

(***************************************************************************)
(* AST model (ast/types.ts)                                                *)
(***************************************************************************)
FILTER_OPERATORS ==
    <<"eq", "eqi", "ne", "nei", "lt", "lte", "gt", "gte", "in", "notIn",
      "contains", "containsi", "notContains", "notContainsi", "startsWith",
      "endsWith", "null", "notNull", "between">>

LOGICAL_OPERATORS == <<"and", "or", "not">>

SORT_DIRECTIONS == <<"asc", "desc">>

isFieldFilter(node) == node.type = "field"

isLogicalFilter(node) == node.type = "logical"

\* filter: null
NoFilter == [type |-> "null"]

\* fields: null, and fields: [...]
FieldsNull == [kind |-> "null", items |-> <<>>]
FieldsArr(s) == [kind |-> "array", items |-> s]

FieldNode(f, op, v) == [type |-> "field", field |-> f, operator |-> op, value |-> v]
LogicalNode(op, cs) == [type |-> "logical", operator |-> op, conditions |-> cs]

Undef == [t |-> "undef"]
Null == [t |-> "null"]
Num(n) == [t |-> "num", v |-> n]
Str(s) == [t |-> "str", s |-> s]
Arr(items) == [t |-> "arr", items |-> items]
Obj(kv) == [t |-> "obj", kv |-> kv]
KV(k, v) == [k |-> k, v |-> v]

(***************************************************************************)
(* Security configuration (security/types.ts)                              *)
(***************************************************************************)
DEFAULT_SECURITY_CONFIG ==
    [allowedFields |-> <<>>, allowedRelations |-> <<>>, maxLimit |-> 100,
     operators |-> FILTER_OPERATORS, defaultLimit |-> 10, defaultPage |-> 1]

\* config is a record holding a subset of the keys; a missing key is undefined
Opt(config, key) ==
    IF key \in DOMAIN config THEN config[key] ELSE DEFAULT_SECURITY_CONFIG[key]

resolveSecurityConfig(config) ==
    [allowedFields |-> Opt(config, "allowedFields"),
     allowedRelations |-> Opt(config, "allowedRelations"),
     maxLimit |-> Opt(config, "maxLimit"),
     operators |-> Opt(config, "operators"),
     defaultLimit |-> Opt(config, "defaultLimit"),
     defaultPage |-> Opt(config, "defaultPage")]

(***************************************************************************)
(* Security validator (security/validator.ts)                              *)
(***************************************************************************)
SecurityError(code, field, surface) ==
    [code |-> code, field |-> field, surface |-> surface]

validateFields_Distinct(fields, allowedFields) ==
    IF fields.kind = "null" \/ Len(fields.items) = 0 \/ Len(allowedFields) = 0
    THEN <<>>
    ELSE LET bad(f) == ~Includes(allowedFields, f)
             disallowed == Unique(FilterSeq(fields.items, bad))
         IN [i \in 1..Len(disallowed) |->
                SecurityError("FIELD_NOT_ALLOWED", disallowed[i], "fields")]

validateFields(fields, allowedFields) ==
    IF fields.kind = "null" \/ Len(fields.items) = 0 \/ Len(allowedFields) = 0
    THEN <<>>
    ELSE LET bad(f) == ~Includes(allowedFields, f)
             disallowed == FilterSeq(fields.items, bad)
         IN [i \in 1..Len(disallowed) |->
                SecurityError("FIELD_NOT_ALLOWED", disallowed[i], "fields")]

validateLimit_CapAtEqual(limit, maxLimit) ==
    IF limit < maxLimit
    THEN [limit |-> limit, warning |-> [code |-> "none"]]
    ELSE [limit |-> maxLimit,
          warning |-> [code |-> "LIMIT_CAPPED", field |-> "limit",
                       originalValue |-> limit, cappedValue |-> maxLimit]]

\* warning: null is [code |-> "none"]
validateLimit(limit, maxLimit) ==
    IF limit <= maxLimit
    THEN [limit |-> limit, warning |-> [code |-> "none"]]
    ELSE [limit |-> maxLimit,
          warning |-> [code |-> "LIMIT_CAPPED", field |-> "limit",
                       originalValue |-> limit, cappedValue |-> maxLimit]]

validateOperators_TopOnly(filter, allowedOperators) ==
    IF filter.type = "field" /\ ~Includes(allowedOperators, filter.operator)
    THEN <<SecurityError("OPERATOR_NOT_ALLOWED", filter.field, "filter")>>
    ELSE <<>>

RECURSIVE validateOperators(_, _)
validateOperators(filter, allowedOperators) ==
    IF filter.type = "null" THEN <<>>
    ELSE IF isFieldFilter(filter)
    THEN IF ~Includes(allowedOperators, filter.operator)
         THEN <<SecurityError("OPERATOR_NOT_ALLOWED", filter.field, "filter")>>
         ELSE <<>>
    ELSE IF isLogicalFilter(filter)
    THEN Flatten([i \in 1..Len(filter.conditions) |->
                    validateOperators(filter.conditions[i], allowedOperators)])
    ELSE <<>>

\* traverse(): every field of a FieldFilter, in visiting order
RECURSIVE traverse(_)
traverse(node) ==
    IF node.type = "null" THEN <<>>
    ELSE IF isFieldFilter(node) THEN <<node.field>>
    ELSE IF isLogicalFilter(node)
    THEN Flatten([i \in 1..Len(node.conditions) |-> traverse(node.conditions[i])])
    ELSE <<>>

extractFilterFields_TopOnly(filter) ==
    IF filter.type = "field" THEN <<filter.field>> ELSE <<>>

extractFilterFields(filter) == Unique(traverse(filter))

validateFilterFields(filter, allowedFields) ==
    IF Len(allowedFields) = 0 \/ filter.type = "null"
    THEN <<>>
    ELSE LET bad(f) == ~Includes(allowedFields, f)
             disallowed == FilterSeq(extractFilterFields(filter), bad)
         IN [i \in 1..Len(disallowed) |->
                SecurityError("FIELD_NOT_ALLOWED", disallowed[i], "filter")]

validateSortFields(sort, allowedFields) ==
    IF Len(allowedFields) = 0 \/ Len(sort) = 0
    THEN <<>>
    ELSE LET bad(spec) == ~Includes(allowedFields, spec.field)
             disallowed == FilterSeq(sort, bad)
         IN [i \in 1..Len(disallowed) |->
                SecurityError("FIELD_NOT_ALLOWED", disallowed[i].field, "sort")]

\* ast: null is [kind |-> "null"]; a QueryAST carries kind |-> "ast"
NullAst == [kind |-> "null"]

QueryAST(fields, pagination, sort, filter) ==
    [kind |-> "ast", fields |-> fields, pagination |-> pagination,
     sort |-> sort, filter |-> filter]

\* a validator that turns a capped limit into an error
validateSecurity_Rejecting(ast, config) ==
    IF ast.kind = "null"
    THEN [valid |-> TRUE, errors |-> <<>>, warnings |-> <<>>, ast |-> NullAst]
    ELSE LET resolvedConfig == resolveSecurityConfig(config)
             errors == validateFields(ast.fields, resolvedConfig.allowedFields)
                       \o validateFilterFields(ast.filter, resolvedConfig.allowedFields)
                       \o validateSortFields(ast.sort, resolvedConfig.allowedFields)
                       \o validateOperators(ast.filter, resolvedConfig.operators)
             capped == validateLimit(ast.pagination.limit, resolvedConfig.maxLimit)
         IN [valid |-> Len(errors) = 0 /\ capped.warning.code = "none",
             errors |-> errors,
             warnings |-> IF capped.warning.code = "none" THEN <<>>
                          ELSE <<capped.warning>>,
             ast |-> [ast EXCEPT !.pagination = [@ EXCEPT !.limit = capped.limit]]]

validateSecurity(ast, config) ==
    IF ast.kind = "null"
    THEN [valid |-> TRUE, errors |-> <<>>, warnings |-> <<>>, ast |-> NullAst]
    ELSE LET resolvedConfig == resolveSecurityConfig(config)
             fieldErrors == validateFields(ast.fields, resolvedConfig.allowedFields)
             filterFieldErrors ==
                 validateFilterFields(ast.filter, resolvedConfig.allowedFields)
             sortFieldErrors == validateSortFields(ast.sort, resolvedConfig.allowedFields)
             operatorErrors == validateOperators(ast.filter, resolvedConfig.operators)
             errors == fieldErrors \o filterFieldErrors \o sortFieldErrors
                       \o operatorErrors
             capped == validateLimit(ast.pagination.limit, resolvedConfig.maxLimit)
             warnings == IF capped.warning.code = "none" THEN <<>>
                         ELSE <<capped.warning>>
             modifiedAst ==
                 [ast EXCEPT !.pagination = [@ EXCEPT !.limit = capped.limit]]
         IN [valid |-> Len(errors) = 0, errors |-> errors, warnings |-> warnings,
             ast |-> modifiedAst]

(***************************************************************************)
(* Inputs of the security validator                                        *)
(***************************************************************************)
\* field names used where a name is opaque
F_id == <<"i", "d">>
F_name == <<"n", "a", "m", "e">>
F_pw == <<"p", "w">>

SecFieldNames == {F_id, F_name, F_pw}

SecLeaves == {FieldNode(f, op, Num(1)) : f \in {F_id, F_pw}, op \in {"eq", "gt"}}

SecLevel1 ==
    {LogicalNode(op, <<a>>) : op \in Range(LOGICAL_OPERATORS), a \in SecLeaves}
    \cup {LogicalNode(op, <<a, b>>) :
            op \in Range(LOGICAL_OPERATORS), a \in SecLeaves, b \in SecLeaves}

SecLevel2 ==
    {LogicalNode(op, <<LogicalNode(op2, <<a, b>>), c>>) :
        op \in Range(LOGICAL_OPERATORS), op2 \in {"or", "not"},
        a \in SecLeaves, b \in SecLeaves, c \in {FieldNode(F_name, "eq", Num(1)),
                                                 FieldNode(F_id, "gt", Num(1))}}

SecFilters == {NoFilter} \cup SecLeaves \cup SecLevel1 \cup SecLevel2

SecFields ==
    {FieldsNull, FieldsArr(<<F_id>>), FieldsArr(<<F_id, F_name>>),
     FieldsArr(<<F_pw, F_pw>>)}

SecSorts ==
    {<<>>, <<[field |-> F_name, direction |-> "asc"]>>,
     <<[field |-> F_id, direction |-> "desc"], [field |-> F_pw, direction |-> "asc"]>>}

\* the largest limit and maxLimit tried
MaxLimitArg == 6

\* the offsets of page 1 and of page 3
SecOffsets == {0, 2 * MaxLimitArg}

SecAsts ==
    {QueryAST(f, [offset |-> o, limit |-> l], s, flt) :
        f \in SecFields, o \in SecOffsets, l \in {MaxLimitArg}, s \in SecSorts,
        flt \in SecFilters}

SecConfigs ==
    {[x \in {} |-> 0]}
    \cup {[allowedFields |-> af] : af \in {<<>>, <<F_id>>, <<F_id, F_name>>}}
    \cup {[operators |-> ops] : ops \in {<<>>, <<"eq">>}}
    \cup {[allowedFields |-> <<F_id>>, operators |-> <<"eq", "gt">>, maxLimit |-> 3]}

NoCall == [fn |-> "none"]

\* a call that has not run yet carries no "out"
Pending(c) == "out" \notin DOMAIN c

SecurityCalls ==
    {[fn |-> "validateSecurity", ast |-> ast, config |-> config] :
        ast \in SecAsts, config \in SecConfigs}
    \cup {[fn |-> "validateLimit", limit |-> limit, maxLimit |-> maxLimit] :
            limit \in (-1)..MaxLimitArg, maxLimit \in (-1)..MaxLimitArg}

CallValidateSecurity ==
    /\ call.fn = "validateSecurity" /\ Pending(call)
    /\ call' = [fn |-> "validateSecurity", ast |-> call.ast, config |-> call.config,
                out |-> validateSecurity(call.ast, call.config)]
    /\ UNCHANGED <<pipeVars, cacheVars, globalVars>>

CallValidateLimit ==
    /\ call.fn = "validateLimit" /\ Pending(call)
    /\ call' = [fn |-> "validateLimit", limit |-> call.limit,
                maxLimit |-> call.maxLimit,
                out |-> validateLimit(call.limit, call.maxLimit)]
    /\ UNCHANGED <<pipeVars, cacheVars, globalVars>>

vars == <<call, pipeVars, cacheVars, globalVars>>

PipeIdle ==
    /\ exPc = "idle"
    /\ exInput = NoCall
    /\ exStages = <<>>
    /\ exParser = NoCall
    /\ exSecurity = NoCall
    /\ exCompile = NoCall
    /\ exResult = NoCall

\* No cache has been constructed.
CacheIdle ==
    /\ cache = <<>>
    /\ cacheConfig = NoCall
    /\ cleanupTimer = 0
    /\ evictions = 0
    /\ evictionsByReason = NoCall
    /\ now = 0
    /\ intervals = {}
    /\ cacheCall = NoCall
    /\ returned = NoCall
    /\ evicted = <<>>

\* No global cache has been asked for.
GlobalIdle ==
    /\ globalQueryCache = 0
    /\ heap = <<>>
    /\ globalCall = NoCall

InitSecurity == call \in SecurityCalls /\ PipeIdle /\ CacheIdle /\ GlobalIdle

NextSecurity == CallValidateSecurity \/ CallValidateLimit

SpecSecurity == InitSecurity /\ [][NextSecurity]_vars

(***************************************************************************)
(* Claims about the security validator                                     *)
(***************************************************************************)
\* the FieldFilter nodes of a filter tree, one per node: <<path, node>>
RECURSIVE FieldFilterNodes(_, _)
FieldFilterNodes(node, path) ==
    IF node.type = "field" THEN {<<path, node>>}
    ELSE IF node.type = "logical"
    THEN UNION {FieldFilterNodes(node.conditions[i], Append(path, i)) :
                    i \in 1..Len(node.conditions)}
    ELSE {}

ReferencedFields(ast) ==
    Range(ast.fields.items)
    \cup {ast.sort[i].field : i \in 1..Len(ast.sort)}
    \cup {n[2].field : n \in FieldFilterNodes(ast.filter, <<>>)}

ErrorsOf(errors, code) == SelectSeq(errors, LAMBDA e : e.code = code)

IsSecurityCall == call.fn = "validateSecurity" /\ ~Pending(call)

\* C2: with a non-empty allowedFields, a FIELD_NOT_ALLOWED error tagged f is
\* reported iff f is referenced by fields, a sort entry or a FieldFilter at any
\* depth and f is not allowed; with an empty allowedFields there is none.
C2_FieldNotAllowedIff ==
    IsSecurityCall =>
        LET allowed == resolveSecurityConfig(call.config).allowedFields
            reported == {e.field : e \in Range(ErrorsOf(call.out.errors,
                                                        "FIELD_NOT_ALLOWED"))}
        IN IF Len(allowed) = 0
           THEN reported = {}
           ELSE reported = {f \in ReferencedFields(call.ast) : ~Includes(allowed, f)}

\* a disallowed field that occurs only below two logical nodes is reported
C2_Witness ==
    /\ IsSecurityCall
    /\ resolveSecurityConfig(call.config).allowedFields = <<F_id, F_name>>
    /\ call.ast.fields.kind = "null"
    /\ call.ast.sort = <<>>
    /\ \E n \in FieldFilterNodes(call.ast.filter, <<>>) :
          Len(n[1]) = 2 /\ n[2].field = F_pw
    /\ \E i \in 1..Len(call.out.errors) :
          call.out.errors[i].code = "FIELD_NOT_ALLOWED"
          /\ call.out.errors[i].field = F_pw

\* C3: one OPERATOR_NOT_ALLOWED error per FieldFilter node whose operator is
\* not allowed, at any depth, none for the others, and any such error makes
\* the result not ok.
C3_OperatorNotAllowedPerNode ==
    IsSecurityCall =>
        LET ops == resolveSecurityConfig(call.config).operators
            errs == ErrorsOf(call.out.errors, "OPERATOR_NOT_ALLOWED")
            badNodes == {n \in FieldFilterNodes(call.ast.filter, <<>>) :
                            ~Includes(ops, n[2].operator)}
        IN /\ Len(errs) = Cardinality(badNodes)
           /\ \A f \in SecFieldNames :
                 Cardinality({i \in 1..Len(errs) : errs[i].field = f})
                    = Cardinality({n \in badNodes : n[2].field = f})
           /\ (Len(errs) > 0 => ~call.out.valid)

\* two disallowed operators below two logical nodes, both reported
C3_Witness ==
    /\ IsSecurityCall
    /\ resolveSecurityConfig(call.config).operators = <<"eq">>
    /\ Cardinality({n \in FieldFilterNodes(call.ast.filter, <<>>) :
                      Len(n[1]) = 2 /\ n[2].operator = "gt"}) = 2
    /\ Len(ErrorsOf(call.out.errors, "OPERATOR_NOT_ALLOWED")) >= 2
    /\ ~call.out.valid

\* C4: validateLimit(limit, maxLimit).limit = min(limit, maxLimit), and a
\* LIMIT_CAPPED warning with originalValue = limit and cappedValue = maxLimit
\* is returned iff limit > maxLimit.
C4_LimitIsMin ==
    (call.fn = "validateLimit" /\ ~Pending(call)) =>
        /\ call.out.limit = Min(call.limit, call.maxLimit)
        /\ (call.out.warning.code = "LIMIT_CAPPED") <=> (call.limit > call.maxLimit)
        /\ call.out.warning.code = "LIMIT_CAPPED" =>
              /\ call.out.warning.originalValue = call.limit
              /\ call.out.warning.cappedValue = call.maxLimit

C4_Witness ==
    /\ call.fn = "validateLimit" /\ ~Pending(call)
    /\ call.limit > call.maxLimit
    /\ call.maxLimit > 0
    /\ call.out.limit = call.maxLimit
    /\ call.out.warning.code = "LIMIT_CAPPED"

\* the AST with another limit
WithLimit(ast, limit) == [ast EXCEPT !.pagination = [@ EXCEPT !.limit = limit]]

\* C24: the call leaves the AST it was given as it was; the AST it returns
\* has the input's fields, sort, filter and offset, and the input's limit or
\* maxLimit, whichever is smaller; and the errors and the verdict are those
\* of the same AST with a limit of 1, so a limit above maxLimit adds no error
\* (it gives the LIMIT_CAPPED warning only).
C24_OnlyLimitDiffers ==
    /\ [][CallValidateSecurity => call'.ast = call.ast /\ call'.config = call.config]_vars
    /\ []((call.fn = "validateSecurity" /\ ~Pending(call)) =>
            /\ call.out.ast = WithLimit(call.ast, call.out.ast.pagination.limit)
            /\ call.out.ast.pagination.limit
                  = Min(call.ast.pagination.limit,
                        resolveSecurityConfig(call.config).maxLimit)
            /\ call.out.errors = validateSecurity(WithLimit(call.ast, 1), call.config).errors
            /\ call.out.valid = validateSecurity(WithLimit(call.ast, 1), call.config).valid
            /\ call.out.valid <=> call.out.errors = <<>>
            /\ \A i \in 1..Len(call.out.warnings) :
                  call.out.warnings[i].code = "LIMIT_CAPPED")

\* a page-3 AST with a limit above maxLimit was validated: it is valid and
\* comes back with the limit capped and the offset it had
C24_Witness ==
    /\ call.fn = "validateSecurity" /\ ~Pending(call)
    /\ call.ast.pagination.limit > resolveSecurityConfig(call.config).maxLimit
    /\ call.ast.pagination.offset > 0
    /\ call.ast.filter.type # "null"
    /\ call.out.valid
    /\ call.out.ast.pagination.limit < call.ast.pagination.limit
    /\ call.out.ast.pagination.offset = call.ast.pagination.offset
    /\ Len(call.out.warnings) = 1

\* the FIELD_NOT_ALLOWED errors tagged f
FieldErrors(errors, f) ==
    {i \in 1..Len(errors) :
        errors[i].code = "FIELD_NOT_ALLOWED" /\ errors[i].field = f}

\* the occurrences of f the validator counts: every entry of fields, every
\* sort entry, and the filter once however many FieldFilters name f
CheckedOccurrences(ast, f) ==
    LET isF(x) == x = f
        sortsF(spec) == spec.field = f
    IN (IF ast.fields.kind = "null" THEN 0 ELSE CountIn(ast.fields.items, isF))
       + CountIn(ast.sort, sortsF)
       + (IF Includes(traverse(ast.filter), f) THEN 1 ELSE 0)

Disallowed(ast, config) ==
    {f \in ReferencedFields(ast) :
        ~Includes(resolveSecurityConfig(config).allowedFields, f)}

\* C12 (as stated): with a non-empty allowedFields, each distinct disallowed
\* field of fields, filter and sort has exactly one FIELD_NOT_ALLOWED error.
C12_ExactlyOnePerField ==
    (IsSecurityCall /\ Len(resolveSecurityConfig(call.config).allowedFields) > 0) =>
        \A f \in Disallowed(call.ast, call.config) :
            Cardinality(FieldErrors(call.out.errors, f)) = 1

\* C12 (amended): with a non-empty allowedFields, each disallowed field has at
\* least one FIELD_NOT_ALLOWED error: one per entry of fields that names it,
\* one per sort entry that names it, and one for the filter if it occurs
\* there; an allowed field has none.
C12_OnePerOccurrence ==
    (IsSecurityCall /\ Len(resolveSecurityConfig(call.config).allowedFields) > 0) =>
        \A f \in SecFieldNames :
            IF f \in Disallowed(call.ast, call.config)
            THEN /\ Cardinality(FieldErrors(call.out.errors, f))
                       = CheckedOccurrences(call.ast, f)
                 /\ Cardinality(FieldErrors(call.out.errors, f)) >= 1
            ELSE FieldErrors(call.out.errors, f) = {}

\* pw is selected twice, sorted by, and filtered on twice: four errors
C12_Witness ==
    /\ IsSecurityCall
    /\ resolveSecurityConfig(call.config).allowedFields = <<F_id, F_name>>
    /\ call.ast.fields = FieldsArr(<<F_pw, F_pw>>)
    /\ \E i \in 1..Len(call.ast.sort) : call.ast.sort[i].field = F_pw
    /\ Cardinality({n \in FieldFilterNodes(call.ast.filter, <<>>) :
                      n[2].field = F_pw}) = 2
    /\ Cardinality(FieldErrors(call.out.errors, F_pw)) = 4

(***************************************************************************)
(* Drizzle PostgreSQL compiler (compiler/drizzle-pg.ts, compiler/types.ts) *)
(*                                                                         *)
(* A table is the sequence of its column names (Object.keys of             *)
(* getTableColumns).  A drizzle SQL predicate is the term                  *)
(* [p |-> builder, column |-> name, args |-> arguments]; and/or/not carry  *)
(* their operands in args.  null / undefined is NoPred.                    *)
(***************************************************************************)
createCompileError(code, field) == [code |-> code, field |-> field]

createCompileWarning(code, field) == [code |-> code, field |-> field]

NoPred == [p |-> "null", column |-> <<>>, args |-> <<>>]

Pred(p, column, args) == [p |-> p, column |-> column, args |-> args]

\* String(value), and the LIKE pattern built around it
Pattern(pre, value, post) == [t |-> "pattern", pre |-> pre, of |-> value, post |-> post]

\* columns: undefined selects every column
AllColumns == [kind |-> "all", names |-> <<>>]

compileFields(fields, table) ==
    IF fields.kind = "null"
    THEN [columns |-> AllColumns, errors |-> <<>>, warnings |-> <<>>]
    ELSE LET known(f) == Includes(table, f)
             unknown(f) == ~Includes(table, f)
             result == Unique(FilterSeq(fields.items, known))
             missing == FilterSeq(fields.items, unknown)
             errors == [i \in 1..Len(missing) |->
                            createCompileError("UNKNOWN_COLUMN", missing[i])]
         IN IF Len(result) = 0 /\ Len(fields.items) > 0
            THEN [columns |-> AllColumns, errors |-> errors,
                  warnings |-> <<createCompileWarning("COLUMN_IGNORED", "fields")>>]
            ELSE [columns |-> [kind |-> "some", names |-> result],
                  errors |-> errors, warnings |-> <<>>]

\* drizzle-mysql.ts
compileMySqlFields(fields, table) ==
    IF fields.kind = "null"
    THEN [columns |-> AllColumns, errors |-> <<>>, warnings |-> <<>>]
    ELSE LET known(f) == Includes(table, f)
             unknown(f) == ~Includes(table, f)
             result == Unique(FilterSeq(fields.items, known))
             missing == FilterSeq(fields.items, unknown)
             errors == [i \in 1..Len(missing) |->
                            createCompileError("UNKNOWN_COLUMN", missing[i])]
         IN IF Len(result) = 0 /\ Len(fields.items) > 0
            THEN [columns |-> AllColumns, errors |-> errors,
                  warnings |-> <<createCompileWarning("COLUMN_IGNORED", "fields")>>]
            ELSE [columns |-> [kind |-> "some", names |-> result],
                  errors |-> errors, warnings |-> <<>>]

\* drizzle-sqlite.ts
compileSQLiteFields(fields, table) ==
    IF fields.kind = "null"
    THEN [columns |-> AllColumns, errors |-> <<>>, warnings |-> <<>>]
    ELSE LET known(f) == Includes(table, f)
             unknown(f) == ~Includes(table, f)
             result == Unique(FilterSeq(fields.items, known))
             missing == FilterSeq(fields.items, unknown)
             errors == [i \in 1..Len(missing) |->
                            createCompileError("UNKNOWN_COLUMN", missing[i])]
         IN IF Len(result) = 0 /\ Len(fields.items) > 0
            THEN [columns |-> AllColumns, errors |-> errors,
                  warnings |-> <<createCompileWarning("COLUMN_IGNORED", "fields")>>]
            ELSE [columns |-> [kind |-> "some", names |-> result],
                  errors |-> errors, warnings |-> <<>>]

compilePagination(pagination) ==
    [limit |-> pagination.limit, offset |-> pagination.offset]

OrderOf(spec) ==
    [direction |-> IF spec.direction = "desc" THEN "desc" ELSE "asc",
     column |-> spec.field]

\* the "continue" is lost: an unknown sort column is reported and still ordered by
compileSort_NoSkip(sort, table) ==
    LET unknown(spec) == ~Includes(table, spec.field)
        missing == FilterSeq(sort, unknown)
    IN [orderBy |-> [i \in 1..Len(sort) |-> OrderOf(sort[i])],
        errors |-> [i \in 1..Len(missing) |->
                        createCompileError("UNKNOWN_COLUMN", missing[i].field)]]

compileSort(sort, table) ==
    LET known(spec) == Includes(table, spec.field)
        unknown(spec) == ~Includes(table, spec.field)
        kept == FilterSeq(sort, known)
        missing == FilterSeq(sort, unknown)
    IN [orderBy |-> [i \in 1..Len(kept) |-> OrderOf(kept[i])],
        errors |-> [i \in 1..Len(missing) |->
                        createCompileError("UNKNOWN_COLUMN", missing[i].field)]]

AsArray(value) == IF value.t = "arr" THEN value.items ELSE <<value>>

compileOperator(column, operator, value, fieldName) ==
    LET ok(pred) == [pred |-> pred, errors |-> <<>>]
    IN CASE operator = "eq" -> ok(Pred("eq", column, <<value>>))
         [] operator = "eqi" -> ok(Pred("ilike", column, <<Pattern(FALSE, value, FALSE)>>))
         [] operator = "ne" -> ok(Pred("ne", column, <<value>>))
         [] operator = "nei" ->
                ok(Pred("notIlike", column, <<Pattern(FALSE, value, FALSE)>>))
         [] operator = "lt" -> ok(Pred("lt", column, <<value>>))
         [] operator = "lte" -> ok(Pred("lte", column, <<value>>))
         [] operator = "gt" -> ok(Pred("gt", column, <<value>>))
         [] operator = "gte" -> ok(Pred("gte", column, <<value>>))
         [] operator = "in" -> ok(Pred("inArray", column, AsArray(value)))
         [] operator = "notIn" -> ok(Pred("notInArray", column, AsArray(value)))
         [] operator = "contains" ->
                ok(Pred("like", column, <<Pattern(TRUE, value, TRUE)>>))
         [] operator = "containsi" ->
                ok(Pred("ilike", column, <<Pattern(TRUE, value, TRUE)>>))
         [] operator = "notContains" ->
                ok(Pred("notLike", column, <<Pattern(TRUE, value, TRUE)>>))
         [] operator = "notContainsi" ->
                ok(Pred("notIlike", column, <<Pattern(TRUE, value, TRUE)>>))
         [] operator = "startsWith" ->
                ok(Pred("like", column, <<Pattern(FALSE, value, TRUE)>>))
         [] operator = "endsWith" ->
                ok(Pred("like", column, <<Pattern(TRUE, value, FALSE)>>))
         [] operator = "null" -> ok(Pred("isNull", column, <<>>))
         [] operator = "notNull" -> ok(Pred("isNotNull", column, <<>>))
         [] operator = "between" ->
                IF value.t # "arr" \/ Len(value.items) # 2
                THEN [pred |-> NoPred,
                      errors |-> <<createCompileError("TYPE_MISMATCH", fieldName)>>]
                ELSE ok(Pred("between", column, value.items))
         [] OTHER ->
                [pred |-> NoPred,
                 errors |-> <<createCompileError("UNSUPPORTED_OPERATOR", fieldName)>>]

IsPred(x) == x.p # "null"

RECURSIVE compileNode(_, _)
compileNode(node, table) ==
    IF isFieldFilter(node)
    THEN IF ~Includes(table, node.field)
         THEN [pred |-> NoPred,
               errors |-> <<createCompileError("UNKNOWN_COLUMN", node.field)>>]
         ELSE compileOperator(node.field, node.operator, node.value, node.field)
    ELSE IF isLogicalFilter(node)
    THEN LET compiled == [i \in 1..Len(node.conditions) |->
                              compileNode(node.conditions[i], table)]
             errors == Flatten([i \in 1..Len(compiled) |-> compiled[i].errors])
             compiledConditions ==
                 FilterSeq([i \in 1..Len(compiled) |-> compiled[i].pred], IsPred)
         IN IF Len(compiledConditions) = 0
            THEN [pred |-> NoPred, errors |-> errors]
            ELSE CASE node.operator = "and" ->
                        IF Len(compiledConditions) = 1
                        THEN [pred |-> compiledConditions[1], errors |-> errors]
                        ELSE [pred |-> Pred("and", <<>>, compiledConditions),
                              errors |-> errors]
                   [] node.operator = "or" ->
                        IF Len(compiledConditions) = 1
                        THEN [pred |-> compiledConditions[1], errors |-> errors]
                        ELSE [pred |-> Pred("or", <<>>, compiledConditions),
                              errors |-> errors]
                   [] node.operator = "not" ->
                        [pred |-> Pred("not", <<>>, <<compiledConditions[1]>>),
                         errors |-> errors]
                   [] OTHER -> [pred |-> NoPred, errors |-> errors]
    ELSE [pred |-> NoPred, errors |-> <<>>]

compileFilter(filter, table) ==
    IF filter.type = "null"
    THEN [where |-> NoPred, errors |-> <<>>]
    ELSE LET result == compileNode(filter, table)
         IN [where |-> result.pred, errors |-> result.errors]

\* DrizzlePgCompiler.compile
compile(ast, table) ==
    LET fields == compileFields(ast.fields, table)
        page == compilePagination(ast.pagination)
        sort == compileSort(ast.sort, table)
        filter == compileFilter(ast.filter, table)
    IN [query |-> [kind |-> "query", columns |-> fields.columns, limit |-> page.limit,
                   offset |-> page.offset, orderBy |-> sort.orderBy,
                   where |-> filter.where],
        errors |-> fields.errors \o sort.errors \o filter.errors,
        warnings |-> fields.warnings]

(***************************************************************************)
(* Inputs of the compiler                                                  *)
(***************************************************************************)
F_ghost == <<"g", "h">>

CompTables == {<<F_id, F_name>>, <<F_id, F_name, F_pw>>, <<>>}

CompFieldNames == {F_id, F_name, F_pw, F_ghost}

CompLeaves ==
    {FieldNode(f, "eq", Num(1)) : f \in {F_id, F_pw, F_ghost}}
    \cup {FieldNode(F_id, "between", Num(1)),
          FieldNode(F_name, "between", Arr(<<Num(1), Num(2)>>)),
          FieldNode(F_ghost, "contains", Str(<<"x">>)),
          FieldNode(F_name, "in", Num(1)),
          FieldNode(F_id, "matches", Num(1))}

CompLevel1 ==
    {LogicalNode(op, <<a>>) : op \in Range(LOGICAL_OPERATORS), a \in CompLeaves}
    \cup {LogicalNode(op, <<a, b>>) :
            op \in Range(LOGICAL_OPERATORS), a \in CompLeaves, b \in CompLeaves}

CompLevel2 ==
    {LogicalNode(op, <<LogicalNode(op2, <<a, b>>), c>>) :
        op \in Range(LOGICAL_OPERATORS), op2 \in {"and", "not"},
        a \in {FieldNode(F_id, "eq", Num(1)), FieldNode(F_ghost, "eq", Num(1))},
        b \in {FieldNode(F_pw, "eq", Num(1)), FieldNode(F_id, "between", Num(1))},
        c \in {FieldNode(F_name, "in", Num(1)), FieldNode(F_ghost, "eq", Num(1))}}

CompFilters == {NoFilter} \cup CompLeaves \cup CompLevel1 \cup CompLevel2

CompFields ==
    {FieldsNull, FieldsArr(<<>>), FieldsArr(<<F_id>>), FieldsArr(<<F_ghost>>),
     FieldsArr(<<F_id, F_ghost, F_id>>), FieldsArr(<<F_ghost, F_pw, F_ghost>>)}

CompSorts ==
    {<<>>, <<[field |-> F_ghost, direction |-> "asc"]>>,
     <<[field |-> F_id, direction |-> "desc"], [field |-> F_pw, direction |-> "asc"],
       [field |-> F_ghost, direction |-> "desc"]>>}

CompAsts ==
    {QueryAST(f, [offset |-> 0, limit |-> 10], s, flt) :
        f \in CompFields, s \in CompSorts, flt \in CompFilters}

CompileCalls ==
    {[fn |-> "compile", ast |-> ast, table |-> table] :
        ast \in CompAsts, table \in CompTables}

CallCompile ==
    /\ call.fn = "compile" /\ Pending(call)
    /\ call' = [fn |-> "compile", ast |-> call.ast, table |-> call.table,
                out |-> compile(call.ast, call.table)]
    /\ UNCHANGED <<pipeVars, cacheVars, globalVars>>

Dialects == {"pg", "mysql", "sqlite"}

CompileFieldsCalls ==
    {[fn |-> "compileFields", dialect |-> d, fields |-> f, table |-> table] :
        d \in Dialects, f \in CompFields, table \in CompTables}

\* compileFields / compileMySqlFields / compileSQLiteFields with fresh errors
\* and warnings arrays
CallCompileFields ==
    /\ call.fn = "compileFields" /\ Pending(call)
    /\ call' = [fn |-> "compileFields", dialect |-> call.dialect,
                fields |-> call.fields, table |-> call.table,
                out |-> CASE call.dialect = "pg" ->
                                compileFields(call.fields, call.table)
                          [] call.dialect = "mysql" ->
                                compileMySqlFields(call.fields, call.table)
                          [] call.dialect = "sqlite" ->
                                compileSQLiteFields(call.fields, call.table)]
    /\ UNCHANGED <<pipeVars, cacheVars, globalVars>>

InitCompile ==
    /\ call \in CompileCalls \cup CompileFieldsCalls
    /\ PipeIdle /\ CacheIdle /\ GlobalIdle

NextCompile == CallCompile \/ CallCompileFields

SpecCompile == InitCompile /\ [][NextCompile]_vars

(***************************************************************************)
(* Claims about the compiler                                               *)
(***************************************************************************)
\* the columns a compiled predicate mentions
RECURSIVE PredColumns(_)
PredColumns(pred) ==
    IF pred.p \in {"and", "or", "not"}
    THEN UNION {PredColumns(pred.args[i]) : i \in 1..Len(pred.args)}
    ELSE IF pred.p = "null" THEN {} ELSE {pred.column}

QueryColumns(query) ==
    Range(query.columns.names)
    \cup {query.orderBy[i].column : i \in 1..Len(query.orderBy)}
    \cup PredColumns(query.where)

\* the entries of the AST that name column f: fields, sort and FieldFilter nodes
Occurrences(ast, f) ==
    Cardinality({i \in 1..Len(ast.fields.items) : ast.fields.items[i] = f})
    + Cardinality({i \in 1..Len(ast.sort) : ast.sort[i].field = f})
    + Cardinality({n \in FieldFilterNodes(ast.filter, <<>>) : n[2].field = f})

IsCompileCall == call.fn = "compile" /\ ~Pending(call)

\* C10: compile reports UNKNOWN_COLUMN once for each fields entry, sort entry
\* and FieldFilter whose column is not in the table and for no resolvable one,
\* and no such column occurs in the output columns, orderBy or where.
C10_UnknownColumnExact ==
    IsCompileCall =>
        LET errs == ErrorsOf(call.out.errors, "UNKNOWN_COLUMN")
        IN /\ \A f \in CompFieldNames :
                 Cardinality({i \in 1..Len(errs) : errs[i].field = f})
                    = IF Includes(call.table, f) THEN 0 ELSE Occurrences(call.ast, f)
           /\ \A i \in 1..Len(errs) : errs[i].field \in CompFieldNames
           /\ QueryColumns(call.out.query) \subseteq Range(call.table)

\* unknown columns in fields, sort and under a nested not, next to known ones
C10_Witness ==
    /\ IsCompileCall
    /\ call.table = <<F_id, F_name>>
    /\ call.ast.fields = FieldsArr(<<F_id, F_ghost, F_id>>)
    /\ Len(call.ast.sort) = 3
    /\ \E n \in FieldFilterNodes(call.ast.filter, <<>>) :
          Len(n[1]) = 2 /\ n[1][2] = 2 /\ n[2].field = F_pw
    /\ Len(ErrorsOf(call.out.errors, "UNKNOWN_COLUMN")) >= 4
    /\ call.out.query.columns.kind = "some"
    /\ Len(call.out.query.orderBy) = 1
    /\ call.out.query.where.p # "null"

IsCompileFieldsCall == call.fn = "compileFields" /\ ~Pending(call)

\* a fields array none of whose entries is a column of the table
AllUnknown(fields, table) ==
    fields.kind # "null" /\ \A i \in 1..Len(fields.items) : ~Includes(table, fields.items[i])

FallsBackWithWarning(out) ==
    /\ out.columns = AllColumns
    /\ \E i \in 1..Len(out.warnings) : out.warnings[i].code = "COLUMN_IGNORED"

EmptySelection(out) == out.columns.kind = "some" /\ out.columns.names = <<>>

\* C13: in each of the three compilers, a fields array whose every entry is
\* unknown compiles to all columns with a COLUMN_IGNORED warning, and no
\* compilation returns an empty column selection without a warning.
C13_NeverSelectsNothing ==
    IsCompileFieldsCall =>
        /\ AllUnknown(call.fields, call.table) => FallsBackWithWarning(call.out)
        /\ EmptySelection(call.out) => call.out.warnings # <<>>

\* the part of C13 that holds: a fields array with at least one entry, all of
\* them unknown, falls back to all columns with the warning, in every dialect,
\* and the three compilers return the same value
UnknownFieldsFallBack ==
    IsCompileFieldsCall =>
        /\ (AllUnknown(call.fields, call.table) /\ Len(call.fields.items) > 0) =>
              FallsBackWithWarning(call.out)
        /\ (EmptySelection(call.out) /\ Len(call.fields.items) > 0) =>
              call.out.warnings # <<>>
        /\ compileFields(call.fields, call.table)
              = compileMySqlFields(call.fields, call.table)
        /\ compileFields(call.fields, call.table)
              = compileSQLiteFields(call.fields, call.table)

\* the not nodes of a filter, the filter itself included
RECURSIVE NotNodes(_)
NotNodes(node) ==
    IF ~isLogicalFilter(node) THEN {}
    ELSE (IF node.operator = "not" THEN {node} ELSE {})
         \cup UNION {NotNodes(node.conditions[i]) : i \in 1..Len(node.conditions)}

\* the node with its first child only
FirstChildOnly(node) == LogicalNode(node.operator, <<node.conditions[1]>>)

\* the filter of the compiled AST is a not node with several children
CompiledNotOfSeveral ==
    /\ IsCompileCall
    /\ isLogicalFilter(call.ast.filter)
    /\ call.ast.filter.operator = "not"
    /\ Len(call.ast.filter.conditions) > 1

\* C25: the predicate compiled for a not node is the one compiled for the
\* same node with its first child alone (the negation of the first child's
\* predicate, and no predicate when the first child has none), whatever the
\* later children are; for the filter itself this is the query's where.
C25_NotNegatesFirstChild ==
    IsCompileCall =>
        /\ CompiledNotOfSeveral =>
              call.out.query.where
                 = compileFilter(FirstChildOnly(call.ast.filter), call.table).where
        /\ \A node \in NotNodes(call.ast.filter) :
              compileNode(node, call.table).pred
                 = compileNode(FirstChildOnly(node), call.table).pred

\* the part of C25 that holds: when the first child of a not node compiles to
\* a predicate, the node compiles to the negation of that predicate
NotOfCompiledFirst ==
    IsCompileCall =>
        \A node \in NotNodes(call.ast.filter) :
           IsPred(compileNode(node.conditions[1], call.table).pred) =>
              compileNode(node, call.table).pred
                 = Pred("not", <<>>, <<compileNode(node.conditions[1], call.table).pred>>)

\* not of an unknown column and a known one was compiled to the negation of
\* the second child
NotNegatedSecondChild ==
    /\ CompiledNotOfSeveral
    /\ ~IsPred(compileNode(call.ast.filter.conditions[1], call.table).pred)
    /\ call.out.query.where
          = Pred("not", <<>>, <<compileNode(call.ast.filter.conditions[2], call.table).pred>>)
    /\ IsPred(call.out.query.where.args[1])

(***************************************************************************)
(* JavaScript string primitives over character tuples                      *)
(***************************************************************************)
IsSpace(c) == c = " "

RECURSIVE TrimStart(_)
TrimStart(s) ==
    IF s # <<>> /\ IsSpace(Head(s)) THEN TrimStart(Tail(s)) ELSE s

RECURSIVE TrimEnd(_)
TrimEnd(s) ==
    IF s # <<>> /\ IsSpace(s[Len(s)]) THEN TrimEnd(SubSeq(s, 1, Len(s) - 1)) ELSE s

\* String.prototype.trim
Trim(s) == TrimEnd(TrimStart(s))

\* String.prototype.split(sep) for a one-character separator
RECURSIVE Split(_, _)
Split(s, sep) ==
    IF \A i \in 1..Len(s) : s[i] # sep THEN <<s>>
    ELSE LET k == CHOOSE i \in 1..Len(s) :
                    s[i] = sep /\ \A j \in 1..(i - 1) : s[j] # sep
         IN <<SubSeq(s, 1, k - 1)>> \o Split(SubSeq(s, k + 1, Len(s)), sep)

\* Array.prototype.join(sep)
RECURSIVE Join(_, _)
Join(parts, sep) ==
    IF parts = <<>> THEN <<>>
    ELSE IF Len(parts) = 1 THEN parts[1]
    ELSE parts[1] \o sep \o Join(Tail(parts), sep)

\* String.prototype.lastIndexOf(c), 1-based; 0 when c does not occur (-1 in JS)
LastIndexOf(s, c) ==
    IF \A i \in 1..Len(s) : s[i] # c THEN 0
    ELSE CHOOSE i \in 1..Len(s) : s[i] = c /\ \A j \in (i + 1)..Len(s) : s[j] # c

UpperCase == <<"A", "B", "C", "D", "E", "F", "G", "H", "I", "J", "K", "L", "M",
               "N", "O", "P", "Q", "R", "S", "T", "U", "V", "W", "X", "Y", "Z">>

LowerCase == <<"a", "b", "c", "d", "e", "f", "g", "h", "i", "j", "k", "l", "m",
               "n", "o", "p", "q", "r", "s", "t", "u", "v", "w", "x", "y", "z">>

\* String.prototype.toLowerCase
ToLowerCase(s) ==
    [i \in 1..Len(s) |->
        IF \E k \in 1..Len(UpperCase) : UpperCase[k] = s[i]
        THEN LowerCase[CHOOSE k \in 1..Len(UpperCase) : UpperCase[k] = s[i]]
        ELSE s[i]]

Digits == <<"0", "1", "2", "3", "4", "5", "6", "7", "8", "9">>

IsDigit(c) == \E k \in 1..Len(Digits) : Digits[k] = c

DigitValue(c) == (CHOOSE k \in 1..Len(Digits) : Digits[k] = c) - 1

\* the value of a run of decimal digits
RECURSIVE DigitsValue(_)
DigitsValue(s) ==
    IF s = <<>> THEN 0
    ELSE 10 * DigitsValue(SubSeq(s, 1, Len(s) - 1)) + DigitValue(s[Len(s)])

\* the longest prefix of digits
RECURSIVE DigitPrefix(_)
DigitPrefix(s) ==
    IF s # <<>> /\ IsDigit(Head(s)) THEN <<Head(s)>> \o DigitPrefix(Tail(s)) ELSE <<>>

NaN == [nan |-> TRUE, v |-> 0]

Number(n) == [nan |-> FALSE, v |-> n]

\* Number.parseInt(s, 10): leading white space, an optional sign, then digits
ParseInt(s) ==
    LET t == TrimStart(s)
        signed == t # <<>> /\ Head(t) \in {"+", "-"}
        body == IF signed THEN Tail(t) ELSE t
        digits == DigitPrefix(body)
    IN IF digits = <<>> THEN NaN
       ELSE IF signed /\ Head(t) = "-" THEN Number(0 - DigitsValue(digits))
       ELSE Number(DigitsValue(digits))

\* String(n) for an integer n
RECURSIVE NatToString(_)
NatToString(n) ==
    IF n < 10 THEN <<Digits[n + 1]>>
    ELSE NatToString(n \div 10) \o <<Digits[(n % 10) + 1]>>

IntToString(n) == IF n < 0 THEN <<"-">> \o NatToString(0 - n) ELSE NatToString(n)

\* the characters of the operator and direction names
CharsOf ==
    [eq |-> <<"e", "q">>, eqi |-> <<"e", "q", "i">>, ne |-> <<"n", "e">>,
     nei |-> <<"n", "e", "i">>, lt |-> <<"l", "t">>, lte |-> <<"l", "t", "e">>,
     gt |-> <<"g", "t">>, gte |-> <<"g", "t", "e">>, in |-> <<"i", "n">>,
     notIn |-> <<"n", "o", "t", "I", "n">>,
     contains |-> <<"c", "o", "n", "t", "a", "i", "n", "s">>,
     containsi |-> <<"c", "o", "n", "t", "a", "i", "n", "s", "i">>,
     notContains |-> <<"n", "o", "t", "C", "o", "n", "t", "a", "i", "n", "s">>,
     notContainsi |-> <<"n", "o", "t", "C", "o", "n", "t", "a", "i", "n", "s", "i">>,
     startsWith |-> <<"s", "t", "a", "r", "t", "s", "W", "i", "t", "h">>,
     endsWith |-> <<"e", "n", "d", "s", "W", "i", "t", "h">>,
     null |-> <<"n", "u", "l", "l">>, notNull |-> <<"n", "o", "t", "N", "u", "l", "l">>,
     between |-> <<"b", "e", "t", "w", "e", "e", "n">>,
     and |-> <<"a", "n", "d">>, or |-> <<"o", "r">>, not |-> <<"n", "o", "t">>,
     asc |-> <<"a", "s", "c">>, desc |-> <<"d", "e", "s", "c">>,
     filter |-> <<"f", "i", "l", "t", "e", "r">>]

\* the name among names (a sequence of names) that is spelled chars
NamedBy(names, chars) == CHOOSE n \in Range(names) : CharsOf[n] = chars

(***************************************************************************)
(* Parser (ast/parser.ts)                                                  *)
(***************************************************************************)
DEFAULT_PAGINATION == [offset |-> 0, limit |-> 10]

DEFAULT_PAGE == 1

ParseError(code, path) == [code |-> code, path |-> path]

NonEmpty(s) == Len(s) > 0

parseFields(fieldsParam) ==
    IF fieldsParam.t # "str" \/ fieldsParam.s = <<>> THEN FieldsNull
    ELSE LET trimmed == Trim(fieldsParam.s)
         IN IF trimmed = <<>> THEN FieldsNull
            ELSE LET parts == Split(trimmed, ",")
                     fields == FilterSeq([i \in 1..Len(parts) |-> Trim(parts[i])],
                                         NonEmpty)
                 IN IF Len(fields) > 0 THEN FieldsArr(fields) ELSE FieldsNull

\* typeof p === "number" ? p : Number.parseInt(String(p), 10)
ToInt(param) ==
    CASE param.t = "num" -> Number(param.v)
      [] param.t = "str" -> ParseInt(param.s)
      [] OTHER -> NaN

\* a pagination that counts pages from 0
parsePagination_ZeroBased(pageParam, limitParam) ==
    LET parsedLimit == ToInt(limitParam)
        limit == IF limitParam.t \notin {"undef", "null"}
                    /\ ~parsedLimit.nan /\ parsedLimit.v > 0
                 THEN parsedLimit.v ELSE DEFAULT_PAGINATION.limit
        parsedPage == ToInt(pageParam)
        page == IF pageParam.t \notin {"undef", "null"}
                   /\ ~parsedPage.nan /\ parsedPage.v > 0
                THEN parsedPage.v ELSE DEFAULT_PAGE
    IN [offset |-> page * limit, limit |-> limit]

\* A number that is not an integer: n / d in lowest terms, d > 1.  It is a
\* number for typeof, next to Num(n) for the integers.
Frac(n, d) == [t |-> "num", v |-> n, d |-> d]

IsFrac(param) == param.t = "num" /\ "d" \in DOMAIN param

RECURSIVE Gcd(_, _)
Gcd(a, b) == IF b = 0 THEN a ELSE Gcd(b, a % b)

\* the ratio n / d (d > 0) in lowest terms; an integer has d = 1
Ratio(n, d) ==
    LET g == Gcd(IF n < 0 THEN 0 - n ELSE n, d)
    IN [n |-> n \div g, d |-> d \div g]

\* typeof p === "number" ? p : Number.parseInt(String(p), 10), as a ratio
ToRatio(param) ==
    IF IsFrac(param) THEN [nan |-> FALSE, v |-> Ratio(param.v, param.d)]
    ELSE [nan |-> ToInt(param).nan, v |-> Ratio(ToInt(param).v, 1)]

\* parsePagination when one of the two parameters is a number that is not an
\* integer: the same statements, computed on ratios, and a pagination whose
\* offset and limit are ratios
parsePaginationOfFraction(pageParam, limitParam) ==
    LET parsedLimit == ToRatio(limitParam)
        limit == IF limitParam.t \notin {"undef", "null"}
                    /\ ~parsedLimit.nan /\ parsedLimit.v.n > 0
                 THEN parsedLimit.v ELSE Ratio(DEFAULT_PAGINATION.limit, 1)
        parsedPage == ToRatio(pageParam)
        page == IF pageParam.t \notin {"undef", "null"}
                   /\ ~parsedPage.nan /\ parsedPage.v.n > 0
                THEN parsedPage.v ELSE Ratio(DEFAULT_PAGE, 1)
    IN [offset |-> Ratio((page.n - page.d) * limit.n, page.d * limit.d),
        limit |-> limit]

parsePagination(pageParam, limitParam) ==
    IF IsFrac(pageParam) \/ IsFrac(limitParam)
    THEN parsePaginationOfFraction(pageParam, limitParam)
    ELSE
    LET parsedLimit == ToInt(limitParam)
        limit == IF limitParam.t \notin {"undef", "null"}
                    /\ ~parsedLimit.nan /\ parsedLimit.v > 0
                 THEN parsedLimit.v ELSE DEFAULT_PAGINATION.limit
        parsedPage == ToInt(pageParam)
        page == IF pageParam.t \notin {"undef", "null"}
                   /\ ~parsedPage.nan /\ parsedPage.v > 0
                THEN parsedPage.v ELSE DEFAULT_PAGE
    IN [offset |-> (page - 1) * limit, limit |-> limit]

\* one token of the sort parameter; field <<>> when the token yields nothing
parseSortPart(part) ==
    LET trimmedPart == Trim(part)
        colonIndex == LastIndexOf(trimmedPart, ":")
        directionStr ==
            ToLowerCase(Trim(SubSeq(trimmedPart, colonIndex + 1, Len(trimmedPart))))
    IN IF colonIndex = 0
       THEN [field |-> trimmedPart, direction |-> "asc"]
       ELSE [field |-> Trim(SubSeq(trimmedPart, 1, colonIndex - 1)),
             direction |-> IF \E d \in Range(SORT_DIRECTIONS) : CharsOf[d] = directionStr
                           THEN NamedBy(SORT_DIRECTIONS, directionStr)
                           ELSE "asc"]

parseSort(sortParam) ==
    IF sortParam.t # "str" \/ sortParam.s = <<>> THEN <<>>
    ELSE LET trimmed == Trim(sortParam.s)
         IN IF trimmed = <<>> THEN <<>>
            ELSE LET parts == Split(trimmed, ",")
                     hasField(spec) == Len(spec.field) > 0
                 IN FilterSeq([i \in 1..Len(parts) |-> parseSortPart(parts[i])],
                              hasField)

isValidFilterOperator(op) == \E o \in Range(FILTER_OPERATORS) : CharsOf[o] = op

isValidLogicalOperator(op) == \E o \in Range(LOGICAL_OPERATORS) : CharsOf[o] = op

\* typeof v === "object" (v is not null): objects and arrays
IsObject(v) == v.t \in {"obj", "arr"}

\* the own enumerable properties of an object or array, as key/value pairs
Entries(v) ==
    IF v.t = "arr"
    THEN [i \in 1..Len(v.items) |-> KV(IntToString(i - 1), v.items[i])]
    ELSE v.kv

\* keys.sort((a, b) => parseInt(a) - parseInt(b)): a stable sort by value
RECURSIVE SortByIndex(_)
SortByIndex(entries) ==
    IF entries = <<>> THEN <<>>
    ELSE LET rest == SortByIndex(SubSeq(entries, 1, Len(entries) - 1))
             last == entries[Len(entries)]
             notAfter(e) == DigitsValue(e.k) <= DigitsValue(last.k)
             after(e) == DigitsValue(e.k) > DigitsValue(last.k)
         IN FilterSeq(rest, notAfter) \o <<last>> \o FilterSeq(rest, after)

IsNode(r) == r.type # "null"

\* the results of the recursive calls: the nodes kept, the errors in call order
Collect(results) ==
    [conditions |-> FilterSeq([i \in 1..Len(results) |-> results[i].node], IsNode),
     errors |-> Flatten([i \in 1..Len(results) |-> results[i].errors])]

\* the tail of parseFieldFilterFromObject, once the operator keys are sorted
\* into conditions (valid operators) and errors (INVALID_OPERATOR)
FieldFilterResult(operators, conditions, errors) ==
    IF Len(operators) = 0 THEN [node |-> NoFilter, errors |-> <<>>]
    ELSE IF Len(operators) > 1
    THEN IF Len(conditions) = 0 THEN [node |-> NoFilter, errors |-> errors]
         ELSE IF Len(conditions) = 1
         THEN [node |-> conditions[1], errors |-> errors]
         ELSE [node |-> LogicalNode("and", conditions), errors |-> errors]
    ELSE IF operators[1].k = <<>> THEN [node |-> NoFilter, errors |-> <<>>]
    ELSE IF Len(conditions) = 0 THEN [node |-> NoFilter, errors |-> errors]
    ELSE [node |-> conditions[1], errors |-> <<>>]

OperatorConditions(fieldName, good) ==
    [i \in 1..Len(good) |->
        FieldNode(fieldName, NamedBy(FILTER_OPERATORS, good[i].k), good[i].v)]

OperatorErrors(path, bad) ==
    [i \in 1..Len(bad) |-> ParseError("INVALID_OPERATOR", Append(path, bad[i].k))]

parseFieldFilterFromObject(fieldName, value, path) ==
    IF value.t \in {"null", "undef"} THEN [node |-> NoFilter, errors |-> <<>>]
    ELSE IF value.t # "obj"
    THEN [node |-> FieldNode(fieldName, "eq", value), errors |-> <<>>]
    ELSE LET valid(e) == isValidFilterOperator(e.k)
             invalid(e) == ~isValidFilterOperator(e.k)
         IN FieldFilterResult(
                value.kv,
                OperatorConditions(fieldName, FilterSeq(value.kv, valid)),
                OperatorErrors(path, FilterSeq(value.kv, invalid)))

\* the logical node over the conditions that parsed, or null when none did
LogicalOf(operator, got) ==
    IF Len(got.conditions) = 0
    THEN [node |-> NoFilter, errors |-> got.errors]
    ELSE [node |-> LogicalNode(operator, got.conditions), errors |-> got.errors]

\* a single nested object under a logical operator
SingleCondition(operator, condition, path) ==
    IF IsNode(condition.node)
    THEN [node |-> LogicalNode(operator, <<condition.node>>),
          errors |-> condition.errors]
    ELSE [node |-> NoFilter,
          errors |-> Append(condition.errors, ParseError("INVALID_VALUE", path))]

\* the implicit AND of a multi-key object
ImplicitAnd(got) ==
    IF Len(got.conditions) = 0 THEN [node |-> NoFilter, errors |-> got.errors]
    ELSE IF Len(got.conditions) = 1
    THEN [node |-> got.conditions[1], errors |-> got.errors]
    ELSE [node |-> LogicalNode("and", got.conditions), errors |-> got.errors]

IsArrayLike(entries) ==
    \A i \in 1..Len(entries) :
        entries[i].k # <<>> /\ \A j \in 1..Len(entries[i].k) : IsDigit(entries[i].k[j])

RECURSIVE parseFilterAt(_, _)
RECURSIVE parseLogicalFilter(_, _, _)
RECURSIVE parseEach(_, _)
RECURSIVE parseKey(_, _)

\* parseFilter on every element of an array or array-like object
parseEach(entries, path) ==
    Collect([i \in 1..Len(entries) |->
                parseFilterAt(entries[i].v, Append(path, entries[i].k))])

parseLogicalFilter(operator, value, path) ==
    IF value.t \in {"null", "undef"} THEN [node |-> NoFilter, errors |-> <<>>]
    ELSE IF ~IsObject(value)
    THEN [node |-> NoFilter, errors |-> <<ParseError("INVALID_VALUE", path)>>]
    ELSE IF value.t = "arr"
    THEN LogicalOf(operator, parseEach(Entries(value), path))
    ELSE IF IsArrayLike(value.kv) /\ Len(value.kv) > 0
    THEN LogicalOf(operator, parseEach(SortByIndex(value.kv), path))
    ELSE SingleCondition(operator, parseFilterAt(value, path), path)

\* one key of a filter object: a logical operator or a field
parseKey(e, path) ==
    IF isValidLogicalOperator(e.k)
    THEN parseLogicalFilter(NamedBy(LOGICAL_OPERATORS, e.k), e.v, Append(path, e.k))
    ELSE parseFieldFilterFromObject(e.k, e.v, Append(path, e.k))

\* every key of a multi-key object, in key order
parseKeys(entries, path) ==
    Collect([i \in 1..Len(entries) |-> parseKey(entries[i], path)])

\* parseFilter(filterObj, errors, path): the node and the errors it appends
parseFilterAt(filterObj, path) ==
    IF filterObj.t \in {"null", "undef"} THEN [node |-> NoFilter, errors |-> <<>>]
    ELSE IF ~IsObject(filterObj)
    THEN [node |-> NoFilter, errors |-> <<ParseError("INVALID_VALUE", path)>>]
    ELSE IF Len(Entries(filterObj)) = 0 THEN [node |-> NoFilter, errors |-> <<>>]
    ELSE IF Len(Entries(filterObj)) > 1
    THEN ImplicitAnd(parseKeys(Entries(filterObj), path))
    ELSE IF Entries(filterObj)[1].k = <<>> THEN [node |-> NoFilter, errors |-> <<>>]
    ELSE parseKey(Entries(filterObj)[1], path)

parseFilter(filterObj) == parseFilterAt(filterObj, <<CharsOf["filter"]>>)

\* a missing key of the input is undefined
In(input, key) == IF key \in DOMAIN input THEN input[key] ELSE Undef

IsCritical(e) == e.code \in {"INVALID_VALUE", "SECURITY_VIOLATION", "EXCEEDED_LIMIT"}

ParserResult(fields, pagination, sort, filter, warnings) ==
    IF \E i \in 1..Len(filter.errors) : IsCritical(filter.errors[i])
    THEN [ast |-> NullAst, errors |-> filter.errors, warnings |-> warnings]
    ELSE [ast |-> QueryAST(fields, pagination, sort, filter.node),
          errors |-> filter.errors, warnings |-> warnings]

parse(input) ==
    ParserResult(
        parseFields(In(input, "fields")),
        parsePagination(In(input, "page"), In(input, "limit")),
        parseSort(In(input, "sort")),
        parseFilter(In(input, "filter")),
        IF In(input, "page").t = "undef" /\ In(input, "limit").t # "undef"
        THEN <<[code |-> "DEFAULT_APPLIED", field |-> "page"]>>
        ELSE <<>>)

(***************************************************************************)
(* Printer (ast/printer.ts)                                                *)
(***************************************************************************)
printFields(fields) ==
    IF fields.kind = "null" \/ Len(fields.items) = 0 THEN Undef
    ELSE Str(Join(fields.items, <<",">>))

printPagination(pagination) ==
    [page |-> (pagination.offset \div pagination.limit) + 1,
     limit |-> pagination.limit]

printSort(sort) ==
    IF Len(sort) = 0 THEN Undef
    ELSE Str(Join([i \in 1..Len(sort) |->
                      sort[i].field \o <<":">> \o CharsOf[sort[i].direction]],
                  <<",">>))

IsDefined(v) == v.t # "undef"

RECURSIVE printFilter(_)
printFilter(filter) ==
    IF filter.type = "null" THEN Undef
    ELSE IF isFieldFilter(filter)
    THEN Obj(<<KV(filter.field, Obj(<<KV(CharsOf[filter.operator], filter.value)>>))>>)
    ELSE IF isLogicalFilter(filter)
    THEN LET conditions ==
                 FilterSeq([i \in 1..Len(filter.conditions) |->
                               printFilter(filter.conditions[i])], IsDefined)
         IN IF Len(conditions) = 0 THEN Undef
            ELSE Obj(<<KV(CharsOf[filter.operator], Arr(conditions))>>)
    ELSE Undef

\* a key whose value is undefined is not set on the result
SetIfDefined(key, v) == IF v.t = "undef" THEN [x \in {} |-> Undef] ELSE [x \in {key} |-> v]

print(ast) ==
    LET page == printPagination(ast.pagination)
    IN SetIfDefined("fields", printFields(ast.fields))
       @@ [page |-> Num(page.page), limit |-> Num(page.limit)]
       @@ SetIfDefined("sort", printSort(ast.sort))
       @@ SetIfDefined("filter", printFilter(ast.filter))

(***************************************************************************)
(* Round trip parse(print(ast)) over valid ASTs                            *)
(***************************************************************************)
F_a == <<"a">>
F_not == <<"n", "o", "t">>

\* the largest offset tried
RtMaxOffset == 5

RtValues == {Num(1), Null, Str(<<"x">>), Arr(<<Num(1), Num(2)>>)}

RtLeaves ==
    {FieldNode(f, op, v) : f \in {F_a, F_id, F_not}, op \in {"eq", "in"}, v \in RtValues}

RtPlainLeaves == {FieldNode(f, "eq", Num(1)) : f \in {F_a, F_id}}

RtLevel1 ==
    {LogicalNode(op, <<a>>) : op \in Range(LOGICAL_OPERATORS), a \in RtLeaves}
    \cup {LogicalNode(op, <<a, b>>) :
            op \in Range(LOGICAL_OPERATORS), a \in RtPlainLeaves, b \in RtPlainLeaves}

RtLevel2 ==
    {LogicalNode(op, <<LogicalNode(op2, <<a, b>>), c>>) :
        op \in Range(LOGICAL_OPERATORS), op2 \in {"or", "not"},
        a \in RtPlainLeaves, b \in RtPlainLeaves, c \in RtPlainLeaves}

RtFilters == {NoFilter} \cup RtLeaves \cup RtLevel1 \cup RtLevel2

RtFields == {FieldsNull, FieldsArr(<<F_a>>), FieldsArr(<<F_id, F_a>>)}

RtSorts ==
    {<<>>, <<[field |-> F_a, direction |-> "desc"]>>,
     <<[field |-> F_id, direction |-> "desc"], [field |-> F_a, direction |-> "asc"]>>}

\* createQueryAST accepts exactly these shapes: non-empty names, offset >= 0,
\* limit > 0, operators of the enumerations, non-empty conditions
RtAsts ==
    {QueryAST(f, [offset |-> o, limit |-> l], s, flt) :
        f \in RtFields, o \in 0..RtMaxOffset, l \in 1..3, s \in RtSorts,
        flt \in RtFilters}

RoundTripCalls == {[fn |-> "roundTrip", ast |-> ast] : ast \in RtAsts}

CallRoundTrip ==
    /\ call.fn = "roundTrip" /\ Pending(call)
    /\ call' = [fn |-> "roundTrip", ast |-> call.ast, printed |-> print(call.ast),
                out |-> parse(print(call.ast))]
    /\ UNCHANGED <<pipeVars, cacheVars, globalVars>>

InitRoundTrip == call \in RoundTripCalls /\ PipeIdle /\ CacheIdle /\ GlobalIdle

NextRoundTrip == CallRoundTrip

SpecRoundTrip == InitRoundTrip /\ [][NextRoundTrip]_vars

IsRoundTripCall == call.fn = "roundTrip" /\ ~Pending(call)

RoundTripHolds(ast, result) ==
    /\ result.ast.kind = "ast"
    /\ result.ast.fields = ast.fields
    /\ result.ast.sort = ast.sort
    /\ result.ast.filter = ast.filter
    /\ result.ast.pagination.limit = ast.pagination.limit
    /\ result.ast.pagination.offset
          = ((ast.pagination.offset \div ast.pagination.limit) + 1 - 1)
                * ast.pagination.limit

\* C9: for every valid QueryAST, parse(print(ast)) is a non-null AST with the
\* same fields, sort and filter tree, the same limit, and the offset of the page
\* floor(offset / limit) + 1.
C9_RoundTrip == IsRoundTripCall => RoundTripHolds(call.ast, call.out)

\* the same, for the ASTs none of whose filter fields is spelled and, or, not
RoundTripWithoutLogicalNames ==
    (IsRoundTripCall
        /\ \A n \in FieldFilterNodes(call.ast.filter, <<>>) :
              ~isValidLogicalOperator(n[2].field))
    => RoundTripHolds(call.ast, call.out)

(***************************************************************************)
(* Query builder (builder/index.ts): execute(input, table) step by step    *)
(***************************************************************************)
NullQuery == [kind |-> "null"]

\* !parserResult.ast, !parseResult.ast
ParseFailed(parserResult) == parserResult.ast.kind = "null"

SecurityFailed_Never(securityResult) == FALSE

\* !securityResult.valid
SecurityFailed(securityResult) == ~securityResult.valid

EarlyReturn_NoErrors(errors, warnings) ==
    [query |-> NullQuery, ast |-> NullAst, errors |-> <<>>, warnings |-> warnings]

EarlyReturn(errors, warnings) ==
    [query |-> NullQuery, ast |-> NullAst, errors |-> errors, warnings |-> warnings]

\* parse(input), then parseInternal up to its first early return
ParseStage(parserResult) ==
    /\ exParser' = parserResult
    /\ exStages' = Append(exStages, "parse")
    /\ IF ParseFailed(parserResult)
       THEN /\ exPc' = "done"
            /\ exResult' = EarlyReturn(parserResult.errors, parserResult.warnings)
       ELSE /\ exPc' = "security"
            /\ UNCHANGED exResult

ExParse ==
    /\ exPc = "start"
    /\ ParseStage(parse(exInput.input))
    /\ UNCHANGED <<cacheVars, globalVars, call, exInput, exSecurity, exCompile>>

\* parseInternal: validateSecurity(parserResult.ast, resolvedConfig)
SecurityStage(securityResult) ==
    /\ exSecurity' = securityResult
    /\ exStages' = Append(exStages, "security")
    /\ IF SecurityFailed(securityResult)
       THEN /\ exPc' = "done"
            /\ exResult' = EarlyReturn(exParser.errors \o securityResult.errors,
                                       exParser.warnings \o securityResult.warnings)
       ELSE /\ exPc' = "compile"
            /\ UNCHANGED exResult

ExSecurity ==
    /\ exPc = "security"
    /\ SecurityStage(validateSecurity(exParser.ast,
                                      resolveSecurityConfig(exInput.config)))
    /\ UNCHANGED <<cacheVars, globalVars, call, exInput, exParser, exCompile>>

CompileStage_ParserAst(ast, compileResult) ==
    /\ exCompile' = [ast |-> ast, out |-> compileResult]
    /\ exStages' = Append(exStages, "compile")
    /\ exResult' =
          [query |-> compileResult.query, ast |-> exParser.ast,
           errors |-> exParser.errors \o exSecurity.errors \o compileResult.errors,
           warnings |-> exParser.warnings \o exSecurity.warnings
                        \o compileResult.warnings]
    /\ exPc' = "done"

\* this.compile(parseResult.ast, table) and the final result
CompileStage(ast, compileResult) ==
    /\ exCompile' = [ast |-> ast, out |-> compileResult]
    /\ exStages' = Append(exStages, "compile")
    /\ exResult' =
          [query |-> compileResult.query, ast |-> ast,
           errors |-> exParser.errors \o exSecurity.errors \o compileResult.errors,
           warnings |-> exParser.warnings \o exSecurity.warnings
                        \o compileResult.warnings]
    /\ exPc' = "done"

ExCompile ==
    /\ exPc = "compile"
    /\ CompileStage(exSecurity.ast, compile(exSecurity.ast, exInput.table))
    /\ UNCHANGED <<cacheVars, globalVars, call, exInput, exParser, exSecurity>>

(***************************************************************************)
(* Inputs of execute                                                       *)
(***************************************************************************)
S_idname == <<"i", "d", ",", "n", "a", "m", "e">>
S_namedesc == <<"n", "a", "m", "e", ":", "d", "e", "s", "c">>
S_status == <<"s", "t", "a", "t", "u", "s">>

S_like == <<"l", "i", "k", "e">>

ExFilters ==
    {Undef,
     Str(<<"x">>),
     Obj(<<KV(F_id, Obj(<<KV(CharsOf["eq"], Num(1))>>))>>),
     Obj(<<KV(F_pw, Obj(<<KV(CharsOf["gt"], Num(1))>>))>>),
     Obj(<<KV(S_status, Str(<<"x">>))>>),
     Obj(<<KV(F_id, Obj(<<KV(<<"l", "i", "k", "e">>, Num(1))>>))>>),
     Obj(<<KV(CharsOf["and"],
              Arr(<<Obj(<<KV(F_id, Obj(<<KV(CharsOf["eq"], Num(1))>>))>>),
                    Obj(<<KV(F_name, Obj(<<KV(CharsOf["gt"], Num(2))>>))>>)>>))>>),
     Obj(<<KV(CharsOf["or"], Obj(<<>>))>>),
     Obj(<<KV(CharsOf["not"], Num(1))>>),
     Null,
     Arr(<<Num(1)>>),
     Obj(<<KV(CharsOf["and"],
              Obj(<<KV(<<"0">>,
                       Obj(<<KV(CharsOf["or"],
                                Arr(<<Obj(<<KV(CharsOf["not"],
                                               Arr(<<Obj(<<KV(F_id, Num(1))>>)>>))>>),
                                      Str(<<"x">>)>>))>>))>>))>>),
     Obj(<<KV(CharsOf["and"], Obj(<<KV(F_id, Obj(<<KV(S_like, Num(1))>>))>>))>>),
     Obj(<<KV(CharsOf["or"],
              Arr(<<Obj(<<KV(F_id, Obj(<<KV(S_like, Num(1))>>))>>),
                    Obj(<<KV(F_name, Obj(<<KV(CharsOf["eq"], Num(2))>>))>>)>>))>>),
     Obj(<<KV(CharsOf["not"],
              Obj(<<KV(<<"0">>, Obj(<<KV(F_id, Obj(<<KV(S_like, Num(1)),
                                                     KV(CharsOf["gt"], Num(0))>>))>>))>>))>>),
     Obj(<<KV(<<>>, Obj(<<KV(CharsOf["eq"], Num(1))>>))>>),
     Obj(<<KV(<<>>, Obj(<<KV(CharsOf["eq"], Num(1))>>)),
           KV(F_id, Obj(<<KV(CharsOf["eq"], Num(2))>>))>>)}

ExInputs ==
    {f @@ pg @@ l @@ s @@ flt :
        f \in {[x \in {} |-> Undef], [fields |-> Str(S_idname)], [fields |-> Str(F_pw)]},
        pg \in {[x \in {} |-> Undef], [page |-> Str(<<"2">>)], [page |-> Num(0)]},
        l \in {[x \in {} |-> Undef], [limit |-> Str(<<"5", "0", "0">>)],
               [limit |-> Num(2)]},
        s \in {[x \in {} |-> Undef], [sort |-> Str(S_namedesc)]},
        flt \in {[filter |-> v] : v \in ExFilters}}

ExConfigs ==
    {[x \in {} |-> 0],
     [allowedFields |-> <<F_id>>],
     [allowedFields |-> <<F_id, F_name, F_ghost>>, operators |-> <<"eq">>,
      maxLimit |-> 3],
     [defaultLimit |-> 25]}

ExTables == {<<F_id, F_name>>, <<F_id, F_name, F_pw, S_status>>}

InitExecute ==
    /\ call = NoCall
    /\ exPc = "start"
    /\ exInput \in {[input |-> i, config |-> c, table |-> t] :
                        i \in ExInputs, c \in ExConfigs, t \in ExTables}
    /\ exStages = <<>>
    /\ exParser = NoCall
    /\ exSecurity = NoCall
    /\ exCompile = NoCall
    /\ exResult = NoCall
    /\ CacheIdle
    /\ GlobalIdle

NextExecute == ExParse \/ ExSecurity \/ ExCompile

SpecExecute == InitExecute /\ [][NextExecute]_vars

(***************************************************************************)
(* Claims about execute                                                    *)
(***************************************************************************)
Ran(stage) == Includes(exStages, stage)

\* C1: execute runs parse, security validation, compile in this order and stops
\* early: a null AST from parse returns query = null without validation or
\* compilation; a failed validation returns query = null and ast = null without
\* compilation; compile runs only on the AST that passed validation.
C1_StagesInOrder ==
    /\ \E n \in 0..3 : exStages = SubSeq(<<"parse", "security", "compile">>, 1, n)
    /\ exPc = "done" =>
          /\ Ran("parse")
          /\ exParser.ast.kind = "null" =>
                /\ exStages = <<"parse">>
                /\ exResult.query = NullQuery
          /\ (Ran("security") /\ ~exSecurity.valid) =>
                /\ exStages = <<"parse", "security">>
                /\ exResult.query = NullQuery
                /\ exResult.ast = NullAst
          /\ Ran("compile") =>
                /\ exParser.ast.kind = "ast"
                /\ exSecurity.valid
                /\ exCompile.ast = exSecurity.ast
                /\ exCompile.ast.kind = "ast"

\* a run stopped by the validator, one stopped by the parser, and a full one are
\* all reached; this is the run the validator stops
C1_Witness ==
    /\ exPc = "done"
    /\ exStages = <<"parse", "security">>
    /\ exParser.ast.kind = "ast"
    /\ ~exSecurity.valid
    /\ exResult.query = NullQuery

IsResult(r) ==
    /\ DOMAIN r = {"query", "ast", "errors", "warnings"}
    /\ r.query.kind \in {"query", "null"}
    /\ r.ast.kind \in {"ast", "null"}

\* the filter input is malformed: defined, not null, and not an object
MalformedFilter(input) == ~IsObject(In(input, "filter")) /\ In(input, "filter") \notin {Undef, Null}

HasCode(errors, code) == \E i \in 1..Len(errors) : errors[i].code = code

Adjusted(ast, config) ==
    [ast EXCEPT !.pagination.limit =
        Min(ast.pagination.limit, resolveSecurityConfig(config).maxLimit)]

\* C14: when the parser returned an AST and validation passed, execute returns
\* a query that is not null and the parser's AST with its limit capped to
\* maxLimit, whether or not compile reported errors; the compile errors are
\* appended to the parser's errors and nothing else changes.
C14_AstSurvivesCompileErrors ==
    (exPc = "done" /\ exParser.ast.kind = "ast" /\ Ran("security")
        /\ exSecurity.valid) =>
        /\ Ran("compile")
        /\ exResult.query.kind = "query"
        /\ exResult.ast.kind = "ast"
        /\ exResult.ast = Adjusted(exParser.ast, exInput.config)
        /\ exResult.ast.pagination.limit
              <= resolveSecurityConfig(exInput.config).maxLimit
        /\ exResult.errors = exParser.errors \o exCompile.out.errors
        /\ exResult.query = compile(exResult.ast, exInput.table).query

\* limit=500 is capped to the default maxLimit and the selected column is
\* unknown to the table: the result has a query, the capped AST and the error
C14_Witness ==
    /\ exPc = "done"
    /\ Ran("compile")
    /\ exSecurity.valid
    /\ exParser.ast.pagination.limit = 500
    /\ exResult.ast.pagination.limit = 100
    /\ HasCode(exCompile.out.errors, "UNKNOWN_COLUMN")
    /\ HasCode(exResult.errors, "UNKNOWN_COLUMN")
    /\ exResult.query.kind = "query"
    /\ exResult.query.limit = 100

\* the operator keys under the field keys of a filter input that are not in
\* FILTER_OPERATORS, counted over the whole input
RECURSIVE BadOperators(_)
BadOperators(v) ==
    IF ~IsObject(v) THEN 0
    ELSE LET entries == Entries(v)
             bad(e) == ~isValidFilterOperator(e.k)
             under(e) ==
                 IF v.t = "arr" \/ isValidLogicalOperator(e.k) \/ IsArrayLike(entries)
                 THEN BadOperators(e.v)
                 ELSE IF e.v.t = "obj" THEN CountIn(e.v.kv, bad) ELSE 0
             RECURSIVE Sum(_)
             Sum(i) == IF i = 0 THEN 0 ELSE under(entries[i]) + Sum(i - 1)
         IN Sum(Len(entries))

\* a filter input with no defect other than unknown operators: objects with
\* keys all the way down, logical operators over an array, a numeric-keyed
\* object or a single nested object, fields over a value or an operator object
RECURSIVE WellFormedFilter(_)
WellFormedFilter(v) ==
    /\ v.t = "obj"
    /\ v.kv # <<>>
    /\ \A i \in 1..Len(v.kv) :
          LET e == v.kv[i]
          IN /\ e.k # <<>>
             /\ IF isValidLogicalOperator(e.k)
                THEN /\ IsObject(e.v)
                     /\ Entries(e.v) # <<>>
                     /\ IF e.v.t = "arr" \/ IsArrayLike(Entries(e.v))
                        THEN \A j \in 1..Len(Entries(e.v)) :
                                WellFormedFilter(Entries(e.v)[j].v)
                        ELSE WellFormedFilter(e.v)
                ELSE /\ e.v.t \notin {"null", "undef", "arr"}
                     /\ e.v.t = "obj" => e.v.kv # <<>>

\* a logical operator is given a single nested object somewhere in the input
RECURSIVE HasSingleNested(_)
HasSingleNested(v) ==
    /\ IsObject(v)
    /\ \E i \in 1..Len(Entries(v)) :
          LET e == Entries(v)[i]
          IN \/ /\ v.t = "obj" /\ isValidLogicalOperator(e.k)
                /\ e.v.t = "obj" /\ ~IsArrayLike(e.v.kv)
             \/ /\ v.t = "arr" \/ isValidLogicalOperator(e.k) \/ IsArrayLike(Entries(v))
                /\ HasSingleNested(e.v)

\* C15: an unknown operator under a field key, anywhere in an otherwise
\* well-formed filter, is recorded as INVALID_OPERATOR, once per operator key,
\* and parse still returns an AST.
C15_BadOperatorKeepsAst ==
    (Ran("parse") /\ WellFormedFilter(In(exInput.input, "filter"))
        /\ BadOperators(In(exInput.input, "filter")) > 0) =>
        /\ exParser.ast.kind = "ast"
        /\ HasCode(exParser.errors, "INVALID_OPERATOR")
        /\ ~HasCode(exParser.errors, "INVALID_VALUE")

\* the part of C15 that holds: at the top level and under a logical operator
\* given as an array or a numeric-keyed object, every unknown operator is one
\* INVALID_OPERATOR error and the AST is returned
BadOperatorOutsideSingleObject ==
    (Ran("parse") /\ WellFormedFilter(In(exInput.input, "filter"))
        /\ ~HasSingleNested(In(exInput.input, "filter"))) =>
        /\ exParser.ast.kind = "ast"
        /\ Len(ErrorsOf(exParser.errors, "INVALID_OPERATOR"))
              = BadOperators(In(exInput.input, "filter"))
        /\ exParser.errors = ErrorsOf(exParser.errors, "INVALID_OPERATOR")

BadOperatorInArrayParsed ==
    /\ Ran("parse")
    /\ In(exInput.input, "filter").t = "obj"
    /\ BadOperators(In(exInput.input, "filter")) = 1
    /\ exParser.ast.kind = "ast"
    /\ exParser.ast.filter.type = "logical"

\* C19: a request without limit, parsed by a builder configured with
\* defaultLimit d, gets pagination.limit = min(d, maxLimit) in the AST that
\* parse and execute return.
C19_DefaultLimitApplied ==
    (exPc = "done" /\ "limit" \notin DOMAIN exInput.input
        /\ exResult.ast.kind = "ast") =>
        exResult.ast.pagination.limit
            = Min(resolveSecurityConfig(exInput.config).defaultLimit,
                  resolveSecurityConfig(exInput.config).maxLimit)

\* what the code does instead: the parser's own default, capped
OmittedLimitIsParserDefault ==
    (exPc = "done" /\ "limit" \notin DOMAIN exInput.input
        /\ exResult.ast.kind = "ast") =>
        exResult.ast.pagination.limit
            = Min(DEFAULT_PAGINATION.limit,
                  resolveSecurityConfig(exInput.config).maxLimit)

\* the columns a query selects from the table: the ones it names, or every
\* column of the table when columns is undefined
SelectedColumns(query, table) ==
    IF query.columns.kind = "all" THEN Range(table) ELSE Range(query.columns.names)

\* execute has returned a query under a config that lists allowedFields
ReturnedQueryUnderAllowList ==
    /\ exPc = "done"
    /\ exResult.query # NullQuery
    /\ Len(resolveSecurityConfig(exInput.config).allowedFields) > 0

\* C28: when allowedFields is not empty and execute returns a query, every
\* column the query selects, orders by or filters on is in allowedFields,
\* also when the request names no fields.
C28_QueryWithinAllowedFields ==
    ReturnedQueryUnderAllowList =>
        SelectedColumns(exResult.query, exInput.table)
        \cup {exResult.query.orderBy[i].column : i \in 1..Len(exResult.query.orderBy)}
        \cup PredColumns(exResult.query.where)
           \subseteq Range(resolveSecurityConfig(exInput.config).allowedFields)

\* the part of C28 that holds: the columns the query names (in columns, in
\* orderBy and in where) are in allowedFields
NamedColumnsWithinAllowedFields ==
    ReturnedQueryUnderAllowList =>
        QueryColumns(exResult.query)
           \subseteq Range(resolveSecurityConfig(exInput.config).allowedFields)

\* a request without fields under allowedFields = [id] has returned a query
\* that selects every column of a table that has a pw column
AllColumnsUnderAllowList ==
    /\ ReturnedQueryUnderAllowList
    /\ "fields" \notin DOMAIN exInput.input
    /\ exInput.config.allowedFields = <<F_id>>
    /\ exResult.query.columns = AllColumns
    /\ F_pw \in Range(exInput.table)
    /\ exResult.errors = <<>>

\* the page the request asked for: the page parsePagination accepts, or the
\* default page
RequestedPage(input) ==
    IF In(input, "page").t \notin {"undef", "null"}
       /\ ~ToInt(In(input, "page")).nan /\ ToInt(In(input, "page")).v > 0
    THEN ToInt(In(input, "page")).v
    ELSE DEFAULT_PAGE

\* execute has returned a query and validation capped the limit
ReturnedCapped ==
    /\ exPc = "done"
    /\ exResult.query # NullQuery
    /\ HasCode(exSecurity.warnings, "LIMIT_CAPPED")

\* C29: when validation caps the limit, the AST and the query that execute
\* returns have the capped limit and the offset of the requested page under
\* that limit, (page - 1) * cappedLimit.
C29_OffsetFollowsCappedLimit ==
    ReturnedCapped =>
        /\ exResult.ast.pagination.limit = resolveSecurityConfig(exInput.config).maxLimit
        /\ exResult.ast.pagination.offset
              = (RequestedPage(exInput.input) - 1) * exResult.ast.pagination.limit
        /\ exResult.query.limit = exResult.ast.pagination.limit
        /\ exResult.query.offset = exResult.ast.pagination.offset

\* what the code does instead: the limit is capped and the offset stays the
\* one of the requested page under the limit the parser accepted
OffsetOfUncappedLimit ==
    ReturnedCapped =>
        /\ exResult.ast.pagination.limit = resolveSecurityConfig(exInput.config).maxLimit
        /\ exResult.ast.pagination.offset
              = (RequestedPage(exInput.input) - 1) * exParser.ast.pagination.limit
        /\ exResult.query.limit = exResult.ast.pagination.limit
        /\ exResult.query.offset = exResult.ast.pagination.offset

\* page 2 with limit 500 under maxLimit 3 was returned as limit 3, offset 500
CappedLimitOldOffset ==
    /\ ReturnedCapped
    /\ In(exInput.input, "page") = Str(<<"2">>)
    /\ In(exInput.input, "limit") = Str(<<"5", "0", "0">>)
    /\ exResult.ast.pagination = [offset |-> 500, limit |-> 3]
    /\ exResult.query.offset = 500
    /\ exResult.query.limit = 3

\* the nodes of a filter tree
RECURSIVE FilterNodes(_)
FilterNodes(node) ==
    IF node.type = "field" THEN {node}
    ELSE IF node.type = "logical"
    THEN {node} \cup UNION {FilterNodes(node.conditions[i]) :
                               i \in 1..Len(node.conditions)}
    ELSE {}

\* parse has returned an AST
Parsed == Ran("parse") /\ exParser.ast.kind = "ast"

\* C26: in every AST that parse returns, each FieldFilter of the filter has a
\* non-empty field and an operator of FilterOperator, and each LogicalFilter
\* has an operator of LogicalOperator and at least one condition.
C26_FilterNodesWellFormed ==
    Parsed =>
        \A node \in FilterNodes(exParser.ast.filter) :
           IF isFieldFilter(node)
           THEN /\ node.field # <<>>
                /\ node.operator \in Range(FILTER_OPERATORS)
           ELSE /\ node.operator \in Range(LOGICAL_OPERATORS)
                /\ Len(node.conditions) >= 1

\* the part of C26 that holds: the operators and the conditions
NodesHaveOperatorAndConditions ==
    Parsed =>
        \A node \in FilterNodes(exParser.ast.filter) :
           IF isFieldFilter(node)
           THEN node.operator \in Range(FILTER_OPERATORS)
           ELSE /\ node.operator \in Range(LOGICAL_OPERATORS)
                /\ Len(node.conditions) >= 1

\* a filter object with an empty key next to another key was parsed into an
\* AST with a FieldFilter on the field ""
EmptyFieldParsed ==
    /\ Parsed
    /\ exParser.errors = <<>>
    /\ \E node \in FilterNodes(exParser.ast.filter) :
          isFieldFilter(node) /\ node.field = <<>>

\* a filter object whose only key is empty was parsed into no filter
EmptyOnlyKeyDropped ==
    /\ Parsed
    /\ In(exInput.input, "filter") = Obj(<<KV(<<>>, Obj(<<KV(CharsOf["eq"], Num(1))>>))>>)
    /\ exParser.ast.filter = NoFilter

(***************************************************************************)
(* The LRU/TTL result cache (LRUCache).  The Map is the sequence of its    *)
(* entries in insertion order, each entry carrying its key.  A key is a    *)
(* string (tuple of characters).  The hit and miss counters and           *)
(* resetStats are read-side statistics and are not modelled; the size      *)
(* estimate of an entry is not modelled either.                            *)
(***************************************************************************)
EVICTION_REASONS == {"expired", "capacity", "manual", "clear"}

DEFAULT_CACHE_CONFIG ==
    [maxSize |-> 1000, ttl |-> 300000, autoCleanup |-> TRUE,
     cleanupInterval |-> 60000]

\* { ...DEFAULT_CACHE_CONFIG, ...config }
MergeConfig(given) == given @@ DEFAULT_CACHE_CONFIG

Bool(b) == [t |-> "bool", b |-> b]

MapHas(m, key) == \E i \in 1..Len(m) : m[i].key = key

MapGet(m, key) == m[CHOOSE i \in 1..Len(m) : m[i].key = key]

MapDelete(m, key) == SelectSeq(m, LAMBDA e : e.key # key)

\* Map.prototype.set: a present key keeps its position, a new one goes last
MapSet(m, key, entry) ==
    IF MapHas(m, key)
    THEN [i \in 1..Len(m) |-> IF m[i].key = key THEN entry ELSE m[i]]
    ELSE Append(m, entry)

MapKeys(m) == [i \in 1..Len(m) |-> m[i].key]

CacheEntry(key, value, t) ==
    [key |-> key, value |-> value, createdAt |-> t, lastAccessedAt |-> t,
     accessCount |-> 1]

StartsWith(s, prefix) ==
    Len(prefix) <= Len(s) /\ SubSeq(s, 1, Len(prefix)) = prefix

\* an expiry that allows one more millisecond than ttl
isExpired_OneLate(entry, t, ttl) == t - entry.createdAt > ttl + 1

isExpired(entry, t, ttl) == t - entry.createdAt > ttl

\* The part of the cache that an eviction changes: the Map, the two eviction
\* statistics and the calls made to config.onEvict.
Counted(m, n, byReason, log) ==
    [cache |-> m, evictions |-> n, evictionsByReason |-> byReason,
     evicted |-> log]

\* an eviction that is not counted
evict_Uncounted(S, key, reason) ==
    IF MapHas(S.cache, key)
    THEN Counted(MapDelete(S.cache, key), S.evictions, S.evictionsByReason,
                 Append(S.evicted, [key |-> key, reason |-> reason]))
    ELSE S

evict(S, key, reason) ==
    IF MapHas(S.cache, key)
    THEN Counted(MapDelete(S.cache, key),
                 S.evictions + 1,
                 [S.evictionsByReason EXCEPT ![reason] = @ + 1],
                 Append(S.evicted, [key |-> key, reason |-> reason]))
    ELSE S

evictLRU(S) ==
    IF S.cache # <<>> THEN evict(S, S.cache[1].key, "capacity") ELSE S

RECURSIVE evictEach(_, _, _)
evictEach(S, keys, reason) ==
    IF keys = <<>> THEN S
    ELSE evictEach(evict(S, Head(keys), reason), Tail(keys), reason)

clear(S) ==
    Counted(<<>>,
            S.evictions + Len(S.cache),
            [S.evictionsByReason EXCEPT !.clear = @ + Len(S.cache)],
            S.evicted \o [i \in 1..Len(S.cache) |->
                            [key |-> S.cache[i].key, reason |-> "clear"]])

cleanup(S, t, ttl) ==
    evictEach(S, MapKeys(SelectSeq(S.cache, LAMBDA e : t - e.createdAt > ttl)),
              "expired")

\* new RegExp(source)
RegExp(source) == [t |-> "regexp", source |-> source]

\* RegExp.prototype.test for a source made of literal characters, "." (any
\* character) and a final "$" (end of input); no flags, so the search may
\* start anywhere
RegExpTest(source, key) ==
    LET anchored == source # <<>> /\ source[Len(source)] = "$"
        body == IF anchored THEN SubSeq(source, 1, Len(source) - 1) ELSE source
        at(i) == \A j \in 1..Len(body) : body[j] = "." \/ body[j] = key[i + j - 1]
    IN \E i \in 1..(Len(key) - Len(body) + 1) :
          at(i) /\ (anchored => i + Len(body) - 1 = Len(key))

\* typeof pattern === "string" ? key.startsWith(pattern) : pattern.test(key)
PatternMatches(pattern, key) ==
    IF pattern.t = "str" THEN StartsWith(key, pattern.s)
    ELSE RegExpTest(pattern.source, key)

invalidatePattern(S, pattern) ==
    evictEach(S, SelectSeq(MapKeys(S.cache), LAMBDA k : PatternMatches(pattern, k)),
              "manual")

invalidateOlderThan(S, t, maxAge) ==
    evictEach(S, MapKeys(SelectSeq(S.cache, LAMBDA e : e.createdAt < t - maxAge)),
              "expired")

\* The interval timer: the cache's handle and the runtime's active intervals.
Timer(handle, active) == [cleanupTimer |-> handle, intervals |-> active]

stopAutoCleanup(T) ==
    IF T.cleanupTimer # 0
    THEN Timer(0, T.intervals \ {T.cleanupTimer})
    ELSE T

\* setInterval returns a handle that no active interval has
setInterval(T) ==
    LET id == CHOOSE i \in 1..(Cardinality(T.intervals) + 1) : i \notin T.intervals
    IN  Timer(id, T.intervals \cup {id})

\* starts a sweep without cancelling the one already scheduled
startAutoCleanup_NoStop(T) == setInterval(T)

startAutoCleanup(T) == setInterval(stopAutoCleanup(T))

(***************************************************************************)
(* The cache's calls.  JavaScript runs a call to completion before a timer *)
(* callback or another call starts, so a call is one step, except the two  *)
(* with a while loop (set, setMaxSize), which take one step per iteration, *)
(* and destroy, which takes one step per statement.  Date.now() does not   *)
(* advance inside a call.                                                  *)
(***************************************************************************)
MaxTime == 1      \* Date.now() ranges over 0..MaxTime

CacheSizes == 0..2        \* the values given to maxSize

CacheTtls == 0..1         \* the values given to ttl and to maxAge

AccessCounts == 1..2      \* an entry is read while its accessCount stays in here

CountedEvictions == 0..1  \* a call starts while evictions is in here

CacheKeys == {<<"q">>, <<"q", "2">>, <<"r">>}

CachePatterns == {Str(<<"q">>), Str(<<"r">>)}

CacheValues == {Num(1)}

Idle == cacheCall.pc = "done"

CanCall == Idle /\ evictions \in CountedEvictions

This == Counted(cache, evictions, evictionsByReason, <<>>)

Running == Counted(cache, evictions, evictionsByReason, evicted)

Becomes(S) ==
    /\ cache' = S.cache
    /\ evictions' = S.evictions
    /\ evictionsByReason' = S.evictionsByReason
    /\ evicted' = S.evicted

Returns(c, value) ==
    /\ cacheCall' = c @@ [pc |-> "done"]
    /\ returned' = value

Schedules(T) ==
    /\ cleanupTimer' = T.cleanupTimer
    /\ intervals' = T.intervals

Touched(entry, t) ==
    [entry EXCEPT !.lastAccessedAt = t, !.accessCount = @ + 1]

Get(key) ==
    /\ CanCall
    /\ IF ~MapHas(cache, key)
       THEN Becomes(This) /\ Returns([name |-> "get", key |-> key], Undef)
       ELSE IF isExpired(MapGet(cache, key), now, cacheConfig.ttl)
       THEN Becomes(evict(This, key, "expired")) /\ Returns([name |-> "get", key |-> key], Undef)
       ELSE /\ Touched(MapGet(cache, key), now).accessCount \in AccessCounts
            /\ Becomes([This EXCEPT !.cache =
                          MapSet(MapDelete(cache, key), key,
                                 Touched(MapGet(cache, key), now))])
            /\ Returns([name |-> "get", key |-> key], MapGet(cache, key).value)
    /\ UNCHANGED <<cacheConfig, cleanupTimer, intervals, now, call, pipeVars, globalVars>>

\* a set that does not delete the entry already under the key
SetCall_NoDelete(key, value) ==
    /\ CanCall
    /\ cacheCall' = [name |-> "set", key |-> key, value |-> value, pc |-> "evict",
                     now |-> now, before |-> This]
    /\ Becomes(This)
    /\ UNCHANGED <<returned, cacheConfig, cleanupTimer, intervals, now, call, pipeVars, globalVars>>

SetCall(key, value) ==
    /\ CanCall
    /\ cacheCall' = [name |-> "set", key |-> key, value |-> value, pc |-> "evict",
                     now |-> now, before |-> This]
    /\ Becomes([This EXCEPT !.cache = MapDelete(cache, key)])
    /\ UNCHANGED <<returned, cacheConfig, cleanupTimer, intervals, now, call, pipeVars, globalVars>>

SetEvict ==
    /\ cacheCall.name = "set" /\ cacheCall.pc = "evict"
    /\ Len(cache) >= cacheConfig.maxSize
    /\ Becomes(evictLRU(Running))
    /\ UNCHANGED <<cacheCall, returned, cacheConfig, cleanupTimer, intervals, now,
                   call, pipeVars, globalVars>>

SetInsert ==
    /\ cacheCall.name = "set" /\ cacheCall.pc = "evict"
    /\ ~(Len(cache) >= cacheConfig.maxSize)
    /\ Becomes([Running EXCEPT !.cache =
                  MapSet(cache, cacheCall.key,
                         CacheEntry(cacheCall.key, cacheCall.value, cacheCall.now))])
    /\ Returns([name |-> "set", key |-> cacheCall.key], Undef)
    /\ UNCHANGED <<cacheConfig, cleanupTimer, intervals, now, call, pipeVars, globalVars>>

\* a has that counts as a use of the entry
Has_Touching(key) ==
    /\ CanCall
    /\ IF ~MapHas(cache, key)
       THEN Becomes(This) /\ Returns([name |-> "has", key |-> key], Bool(FALSE))
       ELSE IF isExpired(MapGet(cache, key), now, cacheConfig.ttl)
       THEN Becomes(evict(This, key, "expired")) /\ Returns([name |-> "has", key |-> key], Bool(FALSE))
       ELSE /\ Becomes([This EXCEPT !.cache =
                          MapSet(MapDelete(cache, key), key, MapGet(cache, key))])
            /\ Returns([name |-> "has", key |-> key], Bool(TRUE))
    /\ UNCHANGED <<cacheConfig, cleanupTimer, intervals, now, call, pipeVars, globalVars>>

Has(key) ==
    /\ CanCall
    /\ IF ~MapHas(cache, key)
       THEN Becomes(This) /\ Returns([name |-> "has", key |-> key], Bool(FALSE))
       ELSE IF isExpired(MapGet(cache, key), now, cacheConfig.ttl)
       THEN Becomes(evict(This, key, "expired")) /\ Returns([name |-> "has", key |-> key], Bool(FALSE))
       ELSE Becomes(This) /\ Returns([name |-> "has", key |-> key], Bool(TRUE))
    /\ UNCHANGED <<cacheConfig, cleanupTimer, intervals, now, call, pipeVars, globalVars>>

Delete(key) ==
    /\ CanCall
    /\ Becomes(IF MapHas(cache, key) THEN evict(This, key, "manual") ELSE This)
    /\ Returns([name |-> "delete", key |-> key], Bool(MapHas(cache, key)))
    /\ UNCHANGED <<cacheConfig, cleanupTimer, intervals, now, call, pipeVars, globalVars>>

Clear ==
    /\ CanCall
    /\ Becomes(clear(This))
    /\ Returns([name |-> "clear"], Undef)
    /\ UNCHANGED <<cacheConfig, cleanupTimer, intervals, now, call, pipeVars, globalVars>>

Cleanup ==
    /\ CanCall
    /\ Becomes(cleanup(This, now, cacheConfig.ttl))
    /\ Returns([name |-> "cleanup"], Num(Len(cleanup(This, now, cacheConfig.ttl).evicted)))
    /\ UNCHANGED <<cacheConfig, cleanupTimer, intervals, now, call, pipeVars, globalVars>>

InvalidatePattern(pattern) ==
    /\ CanCall
    /\ Becomes(invalidatePattern(This, pattern))
    /\ Returns([name |-> "invalidatePattern", pattern |-> pattern],
               Num(Len(invalidatePattern(This, pattern).evicted)))
    /\ UNCHANGED <<cacheConfig, cleanupTimer, intervals, now, call, pipeVars, globalVars>>

InvalidateOlderThan(maxAge) ==
    /\ CanCall
    /\ Becomes(invalidateOlderThan(This, now, maxAge))
    /\ Returns([name |-> "invalidateOlderThan", maxAge |-> maxAge],
               Num(Len(invalidateOlderThan(This, now, maxAge).evicted)))
    /\ UNCHANGED <<cacheConfig, cleanupTimer, intervals, now, call, pipeVars, globalVars>>

SetTTL(ttl) ==
    /\ CanCall
    /\ cacheConfig' = [cacheConfig EXCEPT !.ttl = ttl]
    /\ Becomes(This)
    /\ Returns([name |-> "setTTL", ttl |-> ttl], Undef)
    /\ UNCHANGED <<cleanupTimer, intervals, now, call, pipeVars, globalVars>>

SetMaxSizeCall(maxSize) ==
    /\ CanCall
    /\ cacheConfig' = [cacheConfig EXCEPT !.maxSize = maxSize]
    /\ cacheCall' = [name |-> "setMaxSize", maxSize |-> maxSize, pc |-> "evict"]
    /\ Becomes(This)
    /\ UNCHANGED <<returned, cleanupTimer, intervals, now, call, pipeVars, globalVars>>

SetMaxSizeEvict ==
    /\ cacheCall.name = "setMaxSize" /\ cacheCall.pc = "evict"
    /\ Len(cache) > cacheCall.maxSize
    /\ Becomes(evictLRU(Running))
    /\ UNCHANGED <<cacheCall, returned, cacheConfig, cleanupTimer, intervals, now,
                   call, pipeVars, globalVars>>

\* setMaxSize without its eviction loop
SetMaxSizeReturn_NoLoop ==
    /\ cacheCall.name = "setMaxSize" /\ cacheCall.pc = "evict"
    /\ Returns([name |-> "setMaxSize", maxSize |-> cacheCall.maxSize], Undef)
    /\ UNCHANGED <<cache, evictions, evictionsByReason, evicted, cacheConfig,
                   cleanupTimer, intervals, now, call, pipeVars, globalVars>>

SetMaxSizeReturn ==
    /\ cacheCall.name = "setMaxSize" /\ cacheCall.pc = "evict"
    /\ ~(Len(cache) > cacheCall.maxSize)
    /\ Returns([name |-> "setMaxSize", maxSize |-> cacheCall.maxSize], Undef)
    /\ UNCHANGED <<cache, evictions, evictionsByReason, evicted, cacheConfig,
                   cleanupTimer, intervals, now, call, pipeVars, globalVars>>

StopAutoCleanup ==
    /\ CanCall
    /\ Schedules(stopAutoCleanup(Timer(cleanupTimer, intervals)))
    /\ Becomes(This)
    /\ Returns([name |-> "stopAutoCleanup"], Undef)
    /\ UNCHANGED <<cacheConfig, now, call, pipeVars, globalVars>>

StartAutoCleanup ==
    /\ CanCall
    /\ Schedules(startAutoCleanup(Timer(cleanupTimer, intervals)))
    /\ Becomes(This)
    /\ Returns([name |-> "startAutoCleanup"], Undef)
    /\ UNCHANGED <<cacheConfig, now, call, pipeVars, globalVars>>

\* destroy(), first statement: this.stopAutoCleanup()
DestroyCall ==
    /\ CanCall
    /\ Schedules(stopAutoCleanup(Timer(cleanupTimer, intervals)))
    /\ cacheCall' = [name |-> "destroy", pc |-> "clear", cancelled |-> cleanupTimer]
    /\ Becomes(This)
    /\ UNCHANGED <<returned, cacheConfig, now, call, pipeVars, globalVars>>

\* destroy(), second statement: this.clear()
DestroyClear ==
    /\ cacheCall.name = "destroy" /\ cacheCall.pc = "clear"
    /\ Becomes(clear(Running))
    /\ Returns([name |-> "destroy"], Undef)
    /\ UNCHANGED <<cacheConfig, cleanupTimer, intervals, now, call, pipeVars, globalVars>>

\* an active interval fires: its callback runs this.cleanup()
Sweep(id) ==
    /\ CanCall
    /\ id \in intervals
    /\ Becomes(cleanup(This, now, cacheConfig.ttl))
    /\ Returns([name |-> "sweep", id |-> id], Undef)
    /\ UNCHANGED <<cacheConfig, cleanupTimer, intervals, now, call, pipeVars, globalVars>>

\* time passes between calls
Tick ==
    /\ Idle
    /\ now < MaxTime
    /\ now' = now + 1
    /\ UNCHANGED <<cache, cacheConfig, cleanupTimer, evictions, evictionsByReason,
                   intervals, cacheCall, returned, evicted, call, pipeVars, globalVars>>

\* new LRUCache(config)
CacheConfigs ==
    {[maxSize |-> n, ttl |-> t] : n \in CacheSizes, t \in CacheTtls}
    \cup {[maxSize |-> n, ttl |-> t, autoCleanup |-> FALSE] :
            n \in CacheSizes, t \in CacheTtls}

Constructed(given) ==
    /\ cacheConfig = MergeConfig(given)
    /\ cache = <<>>
    /\ evictions = 0
    /\ evictionsByReason = [r \in EVICTION_REASONS |-> 0]
    /\ IF MergeConfig(given).autoCleanup
       THEN /\ cleanupTimer = startAutoCleanup(Timer(0, {})).cleanupTimer
            /\ intervals = startAutoCleanup(Timer(0, {})).intervals
       ELSE cleanupTimer = 0 /\ intervals = {}

InitCache ==
    /\ call = NoCall
    /\ PipeIdle
    /\ GlobalIdle
    /\ \E given \in CacheConfigs : Constructed(given)
    /\ now = 0
    /\ cacheCall = [name |-> "new", pc |-> "done"]
    /\ returned = Undef
    /\ evicted = <<>>

NextCache ==
    \/ \E key \in CacheKeys : Get(key) \/ Has(key) \/ Delete(key)
    \/ \E key \in CacheKeys, value \in CacheValues : SetCall(key, value)
    \/ SetEvict
    \/ SetInsert
    \/ Clear
    \/ Cleanup
    \/ \E pattern \in CachePatterns : InvalidatePattern(pattern)
    \/ \E maxAge \in CacheTtls : InvalidateOlderThan(maxAge)
    \/ \E ttl \in CacheTtls : SetTTL(ttl)
    \/ \E maxSize \in CacheSizes : SetMaxSizeCall(maxSize)
    \/ SetMaxSizeEvict
    \/ SetMaxSizeReturn
    \/ StopAutoCleanup
    \/ StartAutoCleanup
    \/ DestroyCall
    \/ DestroyClear
    \/ \E id \in intervals : Sweep(id)
    \/ Tick

SpecCache == InitCache /\ [][NextCache]_vars

(***************************************************************************)
(* Claims about the cache                                                  *)
(***************************************************************************)
\* the state of the cache when the set call in progress was made
SetStarted == cacheCall.before

\* a set of an absent key, made while the cache held maxSize entries, is in progress
SetAtCapacity ==
    /\ cacheCall.name = "set" /\ cacheCall.pc = "evict"
    /\ ~MapHas(SetStarted.cache, cacheCall.key)
    /\ Len(SetStarted.cache) = cacheConfig.maxSize

\* C5: when set(k, v) is called with k absent and the cache holding maxSize
\* entries, exactly one entry is removed before k is inserted: the least
\* recently used one (the first of the Map at the call), reported to onEvict
\* and counted once, with reason capacity.  During such a call either the
\* least recently used entry is there and about to be removed, or it is the
\* one entry that has been removed and k is about to be inserted.
C5_SetEvictsOneLRU ==
    SetAtCapacity =>
        \/ /\ evicted = <<>>
           /\ cache = SetStarted.cache
           /\ cache # <<>>
        \/ /\ SetStarted.cache # <<>>
           /\ evicted = <<[key |-> SetStarted.cache[1].key, reason |-> "capacity"]>>
           /\ cache = Tail(SetStarted.cache)
           /\ evictions = SetStarted.evictions + 1
           /\ evictionsByReason =
                 [SetStarted.evictionsByReason EXCEPT !.capacity = @ + 1]
           /\ ENABLED SetInsert

\* What does hold of set: a call made at capacity for an absent key that comes
\* to insert it has removed exactly the least recently used entry.
SetThatInsertsEvictsOneLRU ==
    [][(SetAtCapacity /\ SetInsert)
       => /\ evicted = <<[key |-> SetStarted.cache[1].key, reason |-> "capacity"]>>
          /\ cache' = Append(Tail(SetStarted.cache),
                             CacheEntry(cacheCall.key, cacheCall.value, now))
          /\ evictions' = SetStarted.evictions + 1
          /\ evictionsByReason' =
                [SetStarted.evictionsByReason EXCEPT !.capacity = @ + 1]]_vars

\* set has returned from a full cache of two: it evicted one entry for capacity
\* and the new key is the most recently used of the two entries held
SetReturnedAfterEviction ==
    /\ cacheCall.name = "set" /\ cacheCall.pc = "done"
    /\ cacheConfig.maxSize = 2
    /\ Len(cache) = 2
    /\ cache[2].key = cacheCall.key
    /\ Len(evicted) = 1
    /\ evicted[1].reason = "capacity"
    /\ ~MapHas(cache, evicted[1].key)

\* C6: get(k) on an entry stored more than ttl ago returns undefined, removes
\* the entry and records exactly one eviction, with reason expired; and whatever
\* get returns is the value of an entry stored at most ttl ago.
C6_ExpiredGetMisses ==
    [][\A key \in CacheKeys :
         (cacheCall'.name = "get" /\ Get(key)) =>
           /\ (MapHas(cache, key)
               /\ now - MapGet(cache, key).createdAt > cacheConfig.ttl) =>
                  /\ returned' = Undef
                  /\ cache' = MapDelete(cache, key)
                  /\ Len(cache') = Len(cache) - 1
                  /\ evictions' = evictions + 1
                  /\ evictionsByReason' = [evictionsByReason EXCEPT !.expired = @ + 1]
                  /\ evicted' = <<[key |-> key, reason |-> "expired"]>>
           /\ returned' # Undef =>
                  /\ MapHas(cache, key)
                  /\ now - MapGet(cache, key).createdAt <= cacheConfig.ttl
                  /\ returned' = MapGet(cache, key).value]_vars

\* get has just missed on an entry that had expired, leaving another entry in
\* the cache
C6_Witness ==
    /\ cacheCall.name = "get" /\ cacheCall.pc = "done"
    /\ returned = Undef
    /\ evicted = <<[key |-> cacheCall.key, reason |-> "expired"]>>
    /\ ~MapHas(cache, cacheCall.key)
    /\ cache # <<>>
    /\ evictionsByReason.expired = 1

\* the next step of the call in progress
ContinueCall ==
    SetEvict \/ SetInsert \/ SetMaxSizeEvict \/ SetMaxSizeReturn \/ DestroyClear

\* C7: every cache call returns after finitely many steps.  A loop iteration
\* of set or setMaxSize removes an entry or is the last one, so a call returns
\* if, and only if, it can always take a step that changes the state: a call in
\* progress whose next step changes nothing repeats that step for ever.
C7_CallsReturn == ~Idle => ENABLED <<ContinueCall>>_vars

\* C8: destroy cancels the sweep before it releases the entries, and after it
\* has returned no sweep runs until startAutoCleanup is called.  A sweep is the
\* callback of an active interval (Sweep(id) needs id in intervals), so this
\* says: destroy's clear runs with no interval active and the handle null;
\* destroy returns with no interval active; and from then on only a call to
\* startAutoCleanup makes one active.
C8_DestroyStopsSweep ==
    [][/\ DestroyClear => (cleanupTimer = 0 /\ intervals = {})
       /\ (cacheCall'.name = "destroy" /\ cacheCall'.pc = "done") => intervals' = {}
       /\ (intervals = {} /\ intervals' # {}) => StartAutoCleanup]_vars

\* destroy has cancelled a scheduled sweep and is about to release two entries
C8_Witness ==
    /\ cacheCall.name = "destroy" /\ cacheCall.pc = "clear"
    /\ cacheCall.cancelled # 0
    /\ intervals = {}
    /\ cleanupTimer = 0
    /\ Len(cache) = 2

\* the keys that a step removes from the Map
Gone == {k \in Range(MapKeys(cache)) : ~MapHas(cache', k)}

\* the onEvict calls that a step makes
Reported ==
    IF Idle THEN evicted' ELSE SubSeq(evicted', Len(evicted) + 1, Len(evicted'))

\* Gone is counted: one onEvict call and one eviction for each key, under the
\* reason of that call
GoneIsCounted ==
    /\ evictions' = evictions + Len(Reported)
    /\ Len(Reported) = Cardinality(Gone)
    /\ {Reported[i].key : i \in 1..Len(Reported)} = Gone
    /\ \A r \in EVICTION_REASONS :
          evictionsByReason'[r]
             = evictionsByReason[r]
               + Cardinality({i \in 1..Len(Reported) : Reported[i].reason = r})

\* C21: calls and sweeps run one at a time in any order.  Whatever a call or a
\* sweep removes from the Map it reports and counts once, under one reason
\* (the entry that set replaces stays under its key and is not a removal);
\* and when set returns, its entry is in the Map as it was stored, is not among
\* the entries the call evicted, and the keys missing since the call started
\* are those it evicted and counted.
C21_EvictionsCountedOnce ==
    [][/\ (now' = now /\ ~(Idle /\ cacheCall'.name = "set")) => GoneIsCounted
       /\ (cacheCall.pc = "evict" /\ cacheCall'.pc = "done" /\ SetInsert) =>
             /\ MapHas(cache', cacheCall.key)
             /\ MapGet(cache', cacheCall.key)
                   = CacheEntry(cacheCall.key, cacheCall.value, cacheCall.now)
             /\ \A i \in 1..Len(evicted') : evicted'[i].key # cacheCall.key
             /\ {evicted'[i].key : i \in 1..Len(evicted')}
                   = {k \in Range(MapKeys(SetStarted.cache)) : ~MapHas(cache', k)}
             /\ evictions' = SetStarted.evictions + Len(evicted')]_vars

\* a sweep has just removed an expired entry and counted it as expired, after
\* a set that evicted for capacity
C21_Witness ==
    /\ cacheCall.name = "sweep" /\ cacheCall.pc = "done"
    /\ Len(evicted) = 1
    /\ evictionsByReason.expired = 1
    /\ evictionsByReason.capacity = 1
    /\ evictions = 2

\* C16: when no call is running, the cache holds at most maxSize entries, one
\* per key; only setMaxSize, between its assignment and the end of its loop,
\* sees more.
C16_SizeWithinMaxSize ==
    /\ Idle => Len(cache) <= cacheConfig.maxSize
    /\ (~Idle /\ cacheCall.name # "setMaxSize") => Len(cache) <= cacheConfig.maxSize
    /\ Cardinality(Range(MapKeys(cache))) = Len(cache)

\* setMaxSize(1) has returned after evicting one of two entries
C16_Witness ==
    /\ Idle
    /\ cacheCall.name = "setMaxSize"
    /\ cacheConfig.maxSize = 1
    /\ Len(cache) = 1
    /\ Len(evicted) = 1
    /\ evicted[1].reason = "capacity"

(***************************************************************************)
(* The order of the Map.  The same cache, with two values to store, the    *)
(* read-only getStats next to the calls that touch the order, and no       *)
(* interval timer.                                                         *)
(***************************************************************************)
LRUValues == {Num(1), Num(2)}

LRUConfigs ==
    {[maxSize |-> n, ttl |-> t, autoCleanup |-> FALSE] :
       n \in CacheSizes, t \in CacheTtls}

RECURSIVE Sum(_)
Sum(ns) == IF ns = <<>> THEN 0 ELSE Head(ns) + Sum(Tail(ns))

\* getStats(): reads the Map and the counters.  hits, misses, hitRatio and
\* estimatedMemoryUsage are left out with the counters they read; the two
\* averages are given as the totals they divide.
getStats(S, config, t) ==
    [size |-> Len(S.cache),
     maxSize |-> config.maxSize,
     evictions |-> S.evictions,
     evictionsByReason |-> S.evictionsByReason,
     totalAge |-> Sum([i \in 1..Len(S.cache) |-> t - S.cache[i].createdAt]),
     totalAccessCount |-> Sum([i \in 1..Len(S.cache) |-> S.cache[i].accessCount])]

GetStats ==
    /\ CanCall
    /\ Becomes(This)
    /\ Returns([name |-> "getStats"], getStats(This, cacheConfig, now))
    /\ UNCHANGED <<cacheConfig, cleanupTimer, intervals, now, call, pipeVars, globalVars>>

InitLRU ==
    /\ call = NoCall
    /\ PipeIdle
    /\ GlobalIdle
    /\ \E given \in LRUConfigs : Constructed(given)
    /\ now = 0
    /\ cacheCall = [name |-> "new", pc |-> "done"]
    /\ returned = Undef
    /\ evicted = <<>>

NextLRU ==
    \/ \E key \in CacheKeys : Get(key) \/ Has(key) \/ Delete(key)
    \/ \E key \in CacheKeys, value \in LRUValues : SetCall(key, value)
    \/ SetEvict
    \/ SetInsert
    \/ GetStats
    \/ Cleanup
    \/ \E maxSize \in CacheSizes : SetMaxSizeCall(maxSize)
    \/ SetMaxSizeEvict
    \/ SetMaxSizeReturn
    \/ Tick

SpecLRU == InitLRU /\ [][NextLRU]_vars

\* the entries of the Map are in the order of their last use
InOrderOfLastUse ==
    \A i \in 1..Len(cache), j \in 1..Len(cache) :
       i < j => cache[i].lastAccessedAt <= cache[j].lastAccessedAt

\* the step keeps the entries that remain as they are and in their order
KeepsOrder == cache' = SelectSeq(cache, LAMBDA e : MapHas(cache', e.key))

\* the step is a get that found a live entry
GetHit(key) ==
    /\ Idle
    /\ MapHas(cache, key)
    /\ ~isExpired(MapGet(cache, key), now, cacheConfig.ttl)
    /\ Get(key)

\* C22: the Map stays in the order of the entries' last use (the time of
\* their latest successful get or set); a successful get moves its entry
\* last and leaves the others in their order, a set puts its entry last, and
\* the entries it evicts for capacity are the first ones of the Map, i.e. the
\* ones whose last use is oldest; every other step (has, a get that misses or
\* finds an expired entry, getStats, cleanup, delete, setMaxSize) only
\* removes entries and leaves the remaining ones as they are, in their order.
C22_OrderByLastUse ==
    /\ []InOrderOfLastUse
    /\ [][/\ \A key \in CacheKeys :
              GetHit(key) =>
                 /\ MapDelete(cache', key) = MapDelete(cache, key)
                 /\ cache'[Len(cache')].key = key
                 /\ Len(cache') = Len(cache)
          /\ (cacheCall.pc = "evict" /\ cacheCall'.pc = "done" /\ SetInsert) =>
                 /\ cache' = SubSeq(MapDelete(SetStarted.cache, cacheCall.key),
                                    Len(evicted') + 1,
                                    Len(MapDelete(SetStarted.cache, cacheCall.key)))
                              \o <<CacheEntry(cacheCall.key, cacheCall.value,
                                              cacheCall.now)>>
                 /\ \A i \in 1..Len(evicted') :
                       /\ evicted'[i].reason = "capacity"
                       /\ evicted'[i].key
                            = MapDelete(SetStarted.cache, cacheCall.key)[i].key
          /\ (cacheCall.pc = "evict" /\ (SetEvict \/ SetMaxSizeEvict) /\ cache # <<>>) =>
                 cache' = Tail(cache)
          /\ (~(\E key \in CacheKeys : GetHit(key))
               /\ ~(cacheCall.pc = "evict" /\ SetInsert)) => KeepsOrder]_vars

\* set(q), set(q2), get(q), then set(r) at maxSize 2: the victim is q2, the
\* entry set after q, and q, read since, is kept before r
C22_Witness ==
    /\ Idle
    /\ cacheCall.name = "set"
    /\ cacheCall.key = <<"r">>
    /\ evicted = <<[key |-> <<"q", "2">>, reason |-> "capacity"]>>
    /\ MapKeys(cache) = << <<"q">>, <<"r">> >>
    /\ cache[1].accessCount = 2
    /\ cache[1].createdAt = 0
    /\ cache[1].lastAccessedAt = 1

\* the set call in progress was made on a key that was present
SetOnPresentKey ==
    /\ cacheCall.name = "set"
    /\ MapHas(SetStarted.cache, cacheCall.key)

\* C23: when set(k, v) returns and k was present at the call, the Map has as
\* many entries as before, the entry under k is a new one (value v, createdAt
\* and lastAccessedAt the time of the call, accessCount 1) and is the last of
\* the Map, every other entry is as it was and in the same order, evictions
\* and evictionsByReason are as they were, and onEvict was not called.
C23_ReplaceInPlace ==
    [][(cacheCall.pc = "evict" /\ SetOnPresentKey /\ SetInsert) =>
          /\ Len(cache') = Len(SetStarted.cache)
          /\ cache'[Len(cache')]
                = [key |-> cacheCall.key, value |-> cacheCall.value,
                   createdAt |-> now, lastAccessedAt |-> now, accessCount |-> 1]
          /\ MapDelete(cache', cacheCall.key)
                = MapDelete(SetStarted.cache, cacheCall.key)
          /\ evictions' = SetStarted.evictions
          /\ evictionsByReason' = SetStarted.evictionsByReason
          /\ evicted' = <<>>]_vars

\* at maxSize 2 with two entries, a set on the first key, with another value
\* than the one stored and after the entry was read, has taken the old entry
\* out, has evicted nothing and has only its insertion left
C23_Witness ==
    /\ cacheCall.name = "set" /\ cacheCall.pc = "evict"
    /\ SetOnPresentKey
    /\ cacheConfig.maxSize = 2
    /\ Len(SetStarted.cache) = 2
    /\ SetStarted.cache[1].key = cacheCall.key
    /\ SetStarted.cache[1].value # cacheCall.value
    /\ SetStarted.cache[1].createdAt < cacheCall.now
    /\ SetStarted.cache[1].accessCount = 2
    /\ cache = <<SetStarted.cache[2]>>
    /\ evicted = <<>>

(***************************************************************************)
(* The process-wide query cache (getGlobalQueryCache,                      *)
(* resetGlobalQueryCache).  An object is its index in heap; whoever was    *)
(* handed an instance may keep calling it, also after a reset.             *)
(***************************************************************************)
\* the most instances created in one run
MaxInstances == 2

GlobalConfigs == {[x \in {} |-> 0], [autoCleanup |-> FALSE], [maxSize |-> 1]}

GlobalKeys == {<<"k">>}

\* an LRUCache object: its fields
Instance(S, handle, config) ==
    [cache |-> S.cache, evictions |-> S.evictions,
     evictionsByReason |-> S.evictionsByReason, cleanupTimer |-> handle,
     config |-> config]

StateOf(instance) ==
    Counted(instance.cache, instance.evictions, instance.evictionsByReason, <<>>)

\* an object together with the runtime's intervals after a call on it
OnHeap(instance, active) == [instance |-> instance, intervals |-> active]

\* new QueryCache(config): the LRUCache constructor
createQueryCache(config, active) ==
    LET T == IF MergeConfig(config).autoCleanup
             THEN startAutoCleanup(Timer(0, active))
             ELSE Timer(0, active)
    IN OnHeap(Instance(Counted(<<>>, 0, [r \in EVICTION_REASONS |-> 0], <<>>),
                       T.cleanupTimer, MergeConfig(config)),
              T.intervals)

\* LRUCache.destroy on an object
destroy(instance, active) ==
    LET T == stopAutoCleanup(Timer(instance.cleanupTimer, active))
    IN OnHeap(Instance(clear(StateOf(instance)), T.cleanupTimer, instance.config),
              T.intervals)

\* the loop of LRUCache.set, run to its end
RECURSIVE evictUntilRoom(_, _)
evictUntilRoom(S, maxSize) ==
    IF Len(S.cache) >= maxSize THEN evictUntilRoom(evictLRU(S), maxSize) ELSE S

\* LRUCache.set on an object, as one step
setEntry(instance, key, value, t) ==
    LET removed == [StateOf(instance) EXCEPT !.cache = MapDelete(@, key)]
        room == evictUntilRoom(removed, instance.config.maxSize)
    IN Instance([room EXCEPT !.cache = MapSet(@, key, CacheEntry(key, value, t))],
                instance.cleanupTimer, instance.config)

GlobalCall(name, instance) == [name |-> name, instance |-> instance]

\* resetGlobalQueryCache that forgets to drop the reference
ResetGlobalQueryCache_KeepsReference ==
    /\ IF globalQueryCache # 0
       THEN /\ heap' = [heap EXCEPT ![globalQueryCache] =
                            destroy(heap[globalQueryCache], intervals).instance]
            /\ intervals' = destroy(heap[globalQueryCache], intervals).intervals
            /\ UNCHANGED globalQueryCache
       ELSE UNCHANGED <<heap, intervals, globalQueryCache>>
    /\ globalCall' = GlobalCall("resetGlobalQueryCache", globalQueryCache)
    /\ UNCHANGED <<cache, cacheConfig, cleanupTimer, evictions, evictionsByReason,
                   now, cacheCall, returned, evicted, call, pipeVars>>

GetGlobalQueryCache(config) ==
    /\ globalQueryCache = 0 => Len(heap) < MaxInstances
    /\ IF globalQueryCache = 0
       THEN /\ heap' = Append(heap, createQueryCache(config, intervals).instance)
            /\ intervals' = createQueryCache(config, intervals).intervals
            /\ globalQueryCache' = Len(heap) + 1
       ELSE UNCHANGED <<heap, intervals, globalQueryCache>>
    /\ globalCall' = GlobalCall("getGlobalQueryCache", globalQueryCache')
    /\ UNCHANGED <<cache, cacheConfig, cleanupTimer, evictions, evictionsByReason,
                   now, cacheCall, returned, evicted, call, pipeVars>>

ResetGlobalQueryCache ==
    /\ IF globalQueryCache # 0
       THEN /\ heap' = [heap EXCEPT ![globalQueryCache] =
                            destroy(heap[globalQueryCache], intervals).instance]
            /\ intervals' = destroy(heap[globalQueryCache], intervals).intervals
            /\ globalQueryCache' = 0
       ELSE UNCHANGED <<heap, intervals, globalQueryCache>>
    /\ globalCall' = GlobalCall("resetGlobalQueryCache", globalQueryCache)
    /\ UNCHANGED <<cache, cacheConfig, cleanupTimer, evictions, evictionsByReason,
                   now, cacheCall, returned, evicted, call, pipeVars>>

\* a holder of instance id calls set on it
InstanceSet(id, key, value) ==
    /\ heap[id].evictions \in CountedEvictions
    /\ heap' = [heap EXCEPT ![id] = setEntry(heap[id], key, value, now)]
    /\ UNCHANGED <<cache, cacheConfig, cleanupTimer, evictions, evictionsByReason,
                   now, intervals, cacheCall, returned, evicted, call, pipeVars,
                   globalQueryCache, globalCall>>

\* a holder of instance id calls startAutoCleanup on it
InstanceStartAutoCleanup(id) ==
    /\ heap' = [heap EXCEPT ![id].cleanupTimer =
                    startAutoCleanup(Timer(heap[id].cleanupTimer, intervals)).cleanupTimer]
    /\ intervals' = startAutoCleanup(Timer(heap[id].cleanupTimer, intervals)).intervals
    /\ UNCHANGED <<cache, cacheConfig, cleanupTimer, evictions, evictionsByReason,
                   now, cacheCall, returned, evicted, call, pipeVars,
                   globalQueryCache, globalCall>>

InitGlobal ==
    /\ call = NoCall
    /\ PipeIdle
    /\ CacheIdle
    /\ GlobalIdle

NextGlobal ==
    \/ \E config \in GlobalConfigs : GetGlobalQueryCache(config)
    \/ ResetGlobalQueryCache
    \/ \E id \in 1..Len(heap), key \in GlobalKeys, value \in CacheValues :
          InstanceSet(id, key, value)
    \/ \E id \in 1..Len(heap) : InstanceStartAutoCleanup(id)

SpecGlobal == InitGlobal /\ [][NextGlobal]_vars

\* C17: a getGlobalQueryCache call made while an instance exists returns that
\* instance and creates none, so all calls between two resets return the same
\* one; resetGlobalQueryCache leaves that instance without entries and without
\* a scheduled sweep and drops it; the call after a reset returns an instance
\* that did not exist before, with no entries.
C17_OneInstanceBetweenResets ==
    [][/\ \A config \in GlobalConfigs :
             GetGlobalQueryCache(config) =>
                /\ globalCall'.instance = globalQueryCache'
                /\ IF globalQueryCache # 0
                   THEN globalCall'.instance = globalQueryCache /\ heap' = heap
                   ELSE /\ globalCall'.instance \notin 1..Len(heap)
                        /\ globalCall'.instance \in 1..Len(heap')
                        /\ heap'[globalCall'.instance].cache = <<>>
                        /\ \A id \in 1..Len(heap) : heap'[id] = heap[id]
       /\ (ResetGlobalQueryCache /\ globalQueryCache # 0) =>
             /\ globalQueryCache' = 0
             /\ heap'[globalQueryCache].cache = <<>>
             /\ heap'[globalQueryCache].cleanupTimer = 0
             /\ heap[globalQueryCache].cleanupTimer \notin intervals'
             /\ \A id \in 1..Len(heap) :
                   id # globalQueryCache => heap'[id] = heap[id]
       /\ globalQueryCache' # globalQueryCache =>
             (globalQueryCache = 0 \/ globalQueryCache' = 0)]_vars

\* the second instance has just been returned, empty, after the first one was
\* reset while it held an entry and a scheduled sweep
C17_Witness ==
    /\ globalQueryCache = 2
    /\ globalCall.name = "getGlobalQueryCache"
    /\ globalCall.instance = 2
    /\ heap[2].cache = <<>>
    /\ heap[1].cache = <<>>
    /\ heap[1].evictionsByReason.clear = 1
    /\ heap[1].config.autoCleanup
    /\ heap[1].cleanupTimer = 0

(***************************************************************************)
(* parsePagination on its own                                              *)
(***************************************************************************)
\* the largest page and limit tried
MaxPageArg == 11

\* 0.5, 1.5 and 2.5 as numbers, -0.5, and 2.5 as a string
PaginationFractions ==
    {Frac(1, 2), Frac(3, 2), Frac(5, 2), Frac(-1, 2), Str(<<"2", ".", "5">>)}

\* an integer as a number and as its decimal string, and what else a query
\* string can carry
PaginationArgs ==
    {Undef, Null, Str(<<>>), Str(<<"x">>), Str(<<"0", "7">>), Str(<<"3", "x">>),
     Str(<<" ", "4">>)}
    \cup {Num(n) : n \in (-1)..MaxPageArg}
    \cup {Str(IntToString(n)) : n \in (-1)..MaxPageArg}
    \cup PaginationFractions


PaginationCalls ==
    {[fn |-> "parsePagination", page |-> pg, limit |-> l] :
        pg \in PaginationArgs, l \in PaginationArgs}

CallParsePagination ==
    /\ call.fn = "parsePagination" /\ Pending(call)
    /\ call' = [fn |-> "parsePagination", page |-> call.page, limit |-> call.limit,
                out |-> parsePagination(call.page, call.limit)]
    /\ UNCHANGED <<pipeVars, cacheVars, globalVars>>

InitPagination == call \in PaginationCalls /\ PipeIdle /\ CacheIdle /\ GlobalIdle

NextPagination == CallParsePagination

SpecPagination == InitPagination /\ [][NextPagination]_vars

\* the JavaScript values that stand for the integer n: the number and the
\* decimal string
Denotes(param, n) == param = Num(n) \/ param = Str(IntToString(n))

\* C18: for integers page >= 1 and limit >= 1, each given as a number or as
\* its decimal string, parsePagination returns limit and the offset
\* (page - 1) * limit.
C18_OffsetFormula ==
    (call.fn = "parsePagination" /\ ~Pending(call)) =>
        \A page \in 1..MaxPageArg, limit \in 1..MaxPageArg :
            (Denotes(call.page, page) /\ Denotes(call.limit, limit)) =>
                /\ call.out.limit = limit
                /\ call.out.offset = (page - 1) * limit

\* page "11" and limit "10", both strings of two digits: offset 100
C18_Witness ==
    /\ call.fn = "parsePagination" /\ ~Pending(call)
    /\ call.page = Str(<<"1", "1">>)
    /\ call.limit = Str(<<"1", "0">>)
    /\ call.out = [offset |-> 100, limit |-> 10]

\* one of the two parameters is a number that is not an integer
OfFraction == IsFrac(call.page) \/ IsFrac(call.limit)

\* C27: whatever page and limit are (absent, null, not numeric, zero,
\* negative, fractional; a number or a string), the pagination returned, which
\* parse puts into its AST as it is, has an integer offset >= 0 and an integer
\* limit > 0.
C27_PaginationIsIntegral ==
    (call.fn = "parsePagination" /\ ~Pending(call)) =>
        IF OfFraction
        THEN /\ call.out.offset.d = 1 /\ call.out.offset.n >= 0
             /\ call.out.limit.d = 1 /\ call.out.limit.n > 0
        ELSE /\ call.out.offset \in Nat
             /\ call.out.limit \in Nat \ {0}

\* the part of C27 that holds: strings, integers and absent parameters give
\* an integer offset >= 0 and an integer limit > 0, and the limit is > 0 also
\* for a fractional number
PaginationOfIntegersIsIntegral ==
    (call.fn = "parsePagination" /\ ~Pending(call)) =>
        IF OfFraction
        THEN call.out.limit.n > 0
        ELSE /\ call.out.offset \in Nat
             /\ call.out.limit \in Nat \ {0}

\* limit 2.5 on page 1 was returned as the limit 2.5
FractionalLimitKept ==
    /\ call.fn = "parsePagination" /\ ~Pending(call)
    /\ call.page = Undef
    /\ call.limit = Frac(5, 2)
    /\ call.out = [offset |-> Ratio(0, 1), limit |-> Ratio(5, 2)]

\* page 0.5 with limit 10 was returned as the offset -5
NegativeOffsetReturned ==
    /\ call.fn = "parsePagination" /\ ~Pending(call)
    /\ call.page = Frac(1, 2)
    /\ call.limit = Num(10)
    /\ call.out = [offset |-> Ratio(-5, 1), limit |-> Ratio(10, 1)]

(***************************************************************************)
(* QueryCache: an LRUCache whose keys are built from a query string and a  *)
(* schema name.  A schema name that is undefined or "" is <<>>: both are   *)
(* falsy in generateKey.  The value stored is opaque to the cache; here it *)
(* records the arguments of the setQuery call that stored it.              *)
(***************************************************************************)
generateKey(queryString, schemaName) ==
    IF schemaName # <<>>
    THEN Trim(queryString) \o <<":">> \o schemaName
    ELSE Trim(queryString)

QueryStrings == {<<"a">>, <<" ", "a">>, <<"a", ":", "s">>}

SchemaNames == {<<"s">>, <<"t">>, <<".">>}

QueryCacheConfigs == {[maxSize |-> 2, autoCleanup |-> FALSE]}

StoredAs(queryString, schemaName) ==
    [t |-> "stored", query |-> queryString, schema |-> schemaName]

\* setQuery(queryString, value, schemaName): this.set(generateKey(...), value)
SetQuery(queryString, value, schemaName) ==
    /\ CanCall
    /\ Becomes(StateOf(setEntry(Instance(This, cleanupTimer, cacheConfig),
                                generateKey(queryString, schemaName), value, now)))
    /\ Returns([name |-> "setQuery", key |-> generateKey(queryString, schemaName)],
               Undef)
    /\ UNCHANGED <<cacheConfig, cleanupTimer, intervals, now, call, pipeVars, globalVars>>

\* hasQuery(queryString, schemaName): this.has(generateKey(...))
HasQuery(queryString, schemaName) ==
    /\ CanCall
    /\ Has(generateKey(queryString, schemaName))

\* getQuery(queryString, schemaName): this.get(generateKey(...))
GetQuery(queryString, schemaName) ==
    /\ CanCall
    /\ Get(generateKey(queryString, schemaName))

\* invalidateSchema(schemaName)
InvalidateSchema(schemaName) ==
    /\ CanCall
    /\ Becomes(invalidatePattern(This, RegExp(<<":">> \o schemaName \o <<"$">>)))
    /\ Returns([name |-> "invalidateSchema", schemaName |-> schemaName,
                before |-> cache],
               Num(Len(invalidatePattern(
                          This, RegExp(<<":">> \o schemaName \o <<"$">>)).evicted)))
    /\ UNCHANGED <<cacheConfig, cleanupTimer, intervals, now, call, pipeVars, globalVars>>

InitQueryCache ==
    /\ call = NoCall
    /\ PipeIdle
    /\ GlobalIdle
    /\ \E given \in QueryCacheConfigs : Constructed(given)
    /\ now = 0
    /\ cacheCall = [name |-> "new", pc |-> "done"]
    /\ returned = Undef
    /\ evicted = <<>>

NextQueryCache ==
    \/ \E q \in QueryStrings, s \in SchemaNames \cup {<<>>} :
          \/ SetQuery(q, StoredAs(q, s), s)
          \/ HasQuery(q, s)
          \/ GetQuery(q, s)
    \/ \E s \in SchemaNames : InvalidateSchema(s)

SpecQueryCache == InitQueryCache /\ [][NextQueryCache]_vars

InvalidatedSchema == cacheCall.name = "invalidateSchema"

StoredWith(entries, schemaName) ==
    SelectSeq(entries, LAMBDA e : e.value.schema = schemaName)

StoredOtherwise(entries, schemaName) ==
    SelectSeq(entries, LAMBDA e : e.value.schema # schemaName)

\* C20: invalidateSchema(s) leaves exactly the entries that were not stored
\* with schema name s, and returns the number of entries stored with s.
C20_InvalidateSchemaExact ==
    InvalidatedSchema =>
        /\ cache = StoredOtherwise(cacheCall.before, cacheCall.schemaName)
        /\ returned = Num(Len(StoredWith(cacheCall.before, cacheCall.schemaName)))

\* the part of C20 that holds: every entry stored with schema name s is
\* removed, nothing is added or reordered, and the number returned is the
\* number of entries removed
InvalidateSchemaRemovesSchema ==
    InvalidatedSchema =>
        /\ StoredWith(cache, cacheCall.schemaName) = <<>>
        /\ \E kept \in SUBSET Range(MapKeys(cacheCall.before)) :
              cache = SelectSeq(cacheCall.before, LAMBDA e : e.key \in kept)
        /\ returned = Num(Len(cacheCall.before) - Len(cache))

SchemaInvalidated ==
    /\ InvalidatedSchema
    /\ Len(cacheCall.before) = 2
    /\ Len(cache) = 1
    /\ cache[1].value.schema = <<"t">>
    /\ cacheCall.schemaName = <<"s">>
    /\ returned = Num(1)

\* C30: a value that getQuery(q, s) returns was stored by a setQuery with the
\* same trimmed query string and the same schema name (or none, like s), and
\* two pairs that differ in the trimmed query string or in the schema name
\* have different keys.
C30_GetQueryReturnsOwnEntry ==
    [][\A q \in QueryStrings, s \in SchemaNames \cup {<<>>} :
          (Idle /\ GetQuery(q, s)) =>
             /\ returned' # Undef =>
                   /\ Trim(returned'.query) = Trim(q)
                   /\ returned'.schema = s
             /\ \A q2 \in QueryStrings, s2 \in SchemaNames \cup {<<>>} :
                   generateKey(q2, s2) = generateKey(q, s) =>
                      Trim(q2) = Trim(q) /\ s2 = s]_vars

\* the part of C30 that holds: a value that getQuery(q, s) returns was stored
\* under the key of (q, s), and the key does not depend on white space around
\* the query string
GetQueryReturnsEntryOfKey ==
    [][\A q \in QueryStrings, s \in SchemaNames \cup {<<>>} :
          (Idle /\ GetQuery(q, s)) =>
             /\ returned' # Undef =>
                   generateKey(returned'.query, returned'.schema) = generateKey(q, s)
             /\ generateKey(Trim(q), s) = generateKey(q, s)]_vars

\* the value stored by setQuery("a:s", v) without a schema name was returned
\* by a get of the key of ("a", "s")
OtherPairReturned ==
    /\ Idle
    /\ cacheCall.name = "get"
    /\ cacheCall.key = generateKey(<<"a">>, <<"s">>)
    /\ returned = StoredAs(<<"a", ":", "s">>, <<>>)
====
